---- MODULE Spec2Model ----
(***************************************************************************)
(* Fault localisation across an XSLT transformation boundary.              *)
(*                                                                         *)
(* The core functions of the extension are pure functions over text.  A   *)
(* behaviour of this model is one call of one of them: `call` holds the    *)
(* operation and its arguments, `ret` what it returned, `pc` whether the   *)
(* call has returned.                                                      *)
(*                                                                         *)
(* Text is modelled at the granularity the regular expressions of the      *)
(* source observe: a text is a sequence of lines, a line a sequence of     *)
(* tokens (tags, whitespace, character data, trace comments).  Line        *)
(* numbers inside the functions are 0-indexed exactly where the source's   *)
(* are; Line(ls, i) reads the source's ls[i].                              *)
(***************************************************************************)
EXTENDS Integers, Sequences, FiniteSets, TLC

VARIABLES call, ret, pc

vars == <<call, ret, pc>>

Pending == [op |-> "pending"]

(***************************************************************************)
(* Tokens and lines                                                        *)
(***************************************************************************)
Tok(k, pre, name, f) == [k |-> k, pre |-> pre, name |-> name, f |-> f]

\* <pre:name ...>, </pre:name>, <pre:name .../>, whitespace, character data
OpenTag(pre, name) == Tok("open", pre, name, <<>>)
CloseTag(pre, name) == Tok("close", pre, name, <<>>)
SelfTag(pre, name) == Tok("self", pre, name, <<>>)
Ws == Tok("ws", "", "", <<>>)
Txt(s) == Tok("text", "", s, <<>>)

\* sourceLines[i] of the source, i 0-indexed
Line(ls, i) == ls[i + 1]

EmptyLine == <<>>

\* content.split(/\r?\n/): a text always has at least one line
SplitLines(text) == IF text = <<>> THEN <<EmptyLine>> ELSE text

\* lines.join('\n'): no line at all joins to the empty text, which is the
\* text of one empty line
JoinLines(ls) == IF ls = <<>> THEN <<EmptyLine>> ELSE ls

\* parseInt(s, 10) on the digit strings of the model
ParseInt(s) ==
    CASE s = "0" -> 0 [] s = "1" -> 1 [] s = "2" -> 2 [] s = "3" -> 3
      [] s = "4" -> 4 [] s = "5" -> 5 [] s = "6" -> 6 [] s = "7" -> 7
      [] s = "8" -> 8 [] s = "9" -> 9 [] s = "10" -> 10 [] s = "11" -> 11
      [] s = "12" -> 12

DigitStrings == {"0", "1", "2", "3", "4", "5", "6", "7", "8", "9", "10", "11", "12"}

(***************************************************************************)
(* XPath location resolver (svrlParser.ts)                                 *)
(***************************************************************************)
\* One '/'-separated part of a location path.  kind "empty" is the empty
\* string between two slashes, "junk" a part in which the segment pattern
\* finds no element name ("..", "*", "1"), "step" a part pre:name[idx] with
\* pre and idx possibly absent ("").
Part(kind, pre, name, idx) == [kind |-> kind, pre |-> pre, name |-> name, idx |-> idx]
Step(pre, name, idx) == Part("step", pre, name, idx)
EmptyPart == Part("empty", "", "", "")
JunkPart == Part("junk", "", "", "")

Segment(name, index) == [elementName |-> name, index |-> index]

RECURSIVE ParseXPathSegments(_)
ParseXPathSegments(xpath) ==
    IF xpath = <<>> THEN <<>>
    ELSE LET part == Head(xpath)
             rest == ParseXPathSegments(Tail(xpath))
         IN  IF part.kind = "step"
               THEN <<Segment(part.name,
                              IF part.idx # "" THEN ParseInt(part.idx) ELSE 1)>> \o rest
               ELSE rest

\* <(?:[a-zA-Z0-9_-]+:)?NAME(?:\s|>|/)
OpenRegexTest(elementName, line) ==
    \E t \in 1..Len(line) :
        line[t].k \in {"open", "self"} /\ line[t].name = elementName

\* <(?:[a-zA-Z0-9_-]+:)?NAME\b[^>]*/>
SelfCloseRegexTest(elementName, line) ==
    \E t \in 1..Len(line) : line[t].k = "self" /\ line[t].name = elementName

\* </(?:[a-zA-Z0-9_-]+:)?NAME\s*>
CloseRegexTest(elementName, line) ==
    \E t \in 1..Len(line) : line[t].k = "close" /\ line[t].name = elementName

NullRange == [found |-> FALSE, startLine |-> -1, endLine |-> -1]
Range(s, e) == [found |-> TRUE, startLine |-> s, endLine |-> e]

\* the inner loop of findElementRange: the line of the closing tag, or -1
RECURSIVE FindCloseLine(_, _, _, _, _)
FindCloseLine(elementName, sourceLines, j, searchEnd, depth) ==
    IF ~(j <= searchEnd /\ j < Len(sourceLines)) THEN -1
    ELSE LET scanLine == Line(sourceLines, j)
             d == IF OpenRegexTest(elementName, scanLine)
                     /\ ~SelfCloseRegexTest(elementName, scanLine)
                  THEN depth + 1 ELSE depth
         IN  IF CloseRegexTest(elementName, scanLine)
               THEN IF d - 1 = 0 THEN j
                    ELSE FindCloseLine(elementName, sourceLines, j + 1, searchEnd, d - 1)
               ELSE FindCloseLine(elementName, sourceLines, j + 1, searchEnd, d)

\* the extent of the occurrence found on line i
ElementExtent(elementName, sourceLines, i, searchEnd) ==
    IF SelfCloseRegexTest(elementName, Line(sourceLines, i)) THEN Range(i, i)
    ELSE LET j == FindCloseLine(elementName, sourceLines, i + 1, searchEnd, 1)
         IN  IF j >= 0 THEN Range(i, j) ELSE Range(i, searchEnd)

\* the outer loop of findElementRange, from line i with `count` occurrences seen
RECURSIVE FindOccurrence(_, _, _, _, _, _)
FindOccurrence(elementName, occurrence, sourceLines, i, searchEnd, count) ==
    IF ~(i <= searchEnd /\ i < Len(sourceLines)) THEN NullRange
    ELSE IF ~OpenRegexTest(elementName, Line(sourceLines, i))
           THEN FindOccurrence(elementName, occurrence, sourceLines, i + 1, searchEnd, count)
         ELSE IF count + 1 # occurrence
           THEN FindOccurrence(elementName, occurrence, sourceLines, i + 1, searchEnd, count + 1)
         ELSE ElementExtent(elementName, sourceLines, i, searchEnd)

FindElementRange(elementName, occurrence, sourceLines, searchStart, searchEnd) ==
    FindOccurrence(elementName, occurrence, sourceLines, searchStart, searchEnd, 0)

\* One iteration of the loop of resolveLineFromXPath is logged in `walk`:
\* the segment, the window it was searched in and the range found.
WalkStep(seg, rangeStart, rangeEnd, range) ==
    [seg |-> seg, rangeStart |-> rangeStart, rangeEnd |-> rangeEnd, range |-> range]

\* a loop that skips an unresolvable segment instead of stopping at it
RECURSIVE WalkSegmentsSkipping(_, _, _, _, _, _)
WalkSegmentsSkipping(segments, sourceLines, rangeStart, rangeEnd, lastFoundLine, walk) ==
    IF segments = <<>> THEN [line |-> lastFoundLine + 1, walk |-> walk]
    ELSE LET segment == Head(segments)
             range == FindElementRange(segment.elementName, segment.index,
                                       sourceLines, rangeStart, rangeEnd)
             logged == Append(walk, WalkStep(segment, rangeStart, rangeEnd, range))
         IN  IF ~range.found
               THEN WalkSegmentsSkipping(Tail(segments), sourceLines, rangeStart,
                                         rangeEnd, lastFoundLine, logged)
               ELSE WalkSegmentsSkipping(Tail(segments), sourceLines, range.startLine + 1,
                                         range.endLine, range.startLine, logged)

\* the loop of resolveLineFromXPath
RECURSIVE WalkSegments(_, _, _, _, _, _)
WalkSegments(segments, sourceLines, rangeStart, rangeEnd, lastFoundLine, walk) ==
    IF segments = <<>> THEN [line |-> lastFoundLine + 1, walk |-> walk]
    ELSE LET segment == Head(segments)
             range == FindElementRange(segment.elementName, segment.index,
                                       sourceLines, rangeStart, rangeEnd)
             logged == Append(walk, WalkStep(segment, rangeStart, rangeEnd, range))
         IN  IF ~range.found
               THEN [line |-> lastFoundLine + 1, walk |-> logged]
               ELSE WalkSegments(Tail(segments), sourceLines, range.startLine + 1,
                                 range.endLine, range.startLine, logged)

\* a resolver that forgets the conversion to 1-indexed lines
ResolveLineZeroIndexed(xpath, sourceLines) ==
    LET r == WalkSegments(ParseXPathSegments(xpath), sourceLines, 0,
                          Len(sourceLines) - 1, 0, <<>>)
    IN  [line |-> r.line - 1, walk |-> r.walk]

ResolveLineFromXPath(xpath, sourceLines) ==
    LET segments == ParseXPathSegments(xpath)
    IN  IF xpath = <<>> \/ segments = <<>>
          THEN [line |-> 1, walk |-> <<>>]
          ELSE WalkSegments(segments, sourceLines, 0, Len(sourceLines) - 1, 0, <<>>)

(***************************************************************************)
(* Inputs of the resolver: documents built from a few element layouts, and *)
(* location paths over the same element names.                             *)
(***************************************************************************)
MaxItems == 2
MaxPathParts == 3

RECURSIVE SeqsUpTo(_, _)
SeqsUpTo(S, n) ==
    IF n = 0 THEN {<<>>}
    ELSE LET shorter == SeqsUpTo(S, n - 1)
         IN  shorter \cup {Append(s, x) : s \in {q \in shorter : Len(q) = n - 1}, x \in S}

RECURSIVE Flatten(_)
Flatten(ss) == IF ss = <<>> THEN <<>> ELSE Head(ss) \o Flatten(Tail(ss))

\* <cac:Container> / <cbc:Child/> / </cac:Container> on three lines
ItemBlock ==
    << <<Ws, OpenTag("cac", "Container")>>,
       <<Ws, SelfTag("cbc", "Child")>>,
       <<Ws, CloseTag("cac", "Container")>> >>
\* <cac:Container></cac:Container> on one line
ItemOneLineEmpty == << <<OpenTag("cac", "Container"), CloseTag("cac", "Container")>> >>
\* <cac:Container/>
ItemSelfClosed == << <<SelfTag("cac", "Container")>> >>
\* a container nested in a container of the same name
ItemNested ==
    << <<OpenTag("cac", "Container")>>,
       <<OpenTag("cac", "Container"), SelfTag("cbc", "Child"), CloseTag("cac", "Container")>>,
       <<CloseTag("cac", "Container")>> >>
\* an opening tag that is never closed (truncated or malformed output)
ItemUnclosed == << <<OpenTag("cac", "Container")>> >>
\* a child directly under the root
ItemBareChild == << <<OpenTag("cbc", "Child"), Txt("t"), CloseTag("cbc", "Child")>> >>

ResolveItems ==
    {ItemBlock, ItemOneLineEmpty, ItemSelfClosed, ItemNested,
     ItemUnclosed, ItemBareChild}

RootOpen == <<OpenTag("", "Root")>>
RootClose == <<CloseTag("", "Root")>>

\* with a root element around the items, or the bare items (a fragment)
ResolveDocuments ==
    LET bodies == {Flatten(is) : is \in SeqsUpTo(ResolveItems, MaxItems)}
    IN  {<<RootOpen>> \o b \o <<RootClose>> : b \in bodies}
          \cup {SplitLines(b) : b \in bodies}

XPathParts ==
    {EmptyPart, JunkPart,
     Step("*", "Root", "1"),
     Step("", "Container", ""), Step("cac", "Container", "2"),
     Step("*", "Child", "1"), Step("", "Child", "0"),
     Step("", "Missing", "1")}

XPaths == {<<>>} \cup [1..MaxPathParts -> XPathParts]

InitResolve ==
    /\ \E p \in XPaths, d \in ResolveDocuments :
          call = [op |-> "resolveLineFromXPath", xpath |-> p, sourceLines |-> d]
    /\ ret = Pending
    /\ pc = "call"

\* assertionToIssue -> resolveLineFromXPath(assertion.location, sourceLines)
ResolveLineFromXPathCall ==
    /\ pc = "call"
    /\ call.op = "resolveLineFromXPath"
    /\ ret' = [op |-> call.op] @@ ResolveLineFromXPath(call.xpath, call.sourceLines)
    /\ pc' = "done"
    /\ UNCHANGED call

NextResolve == ResolveLineFromXPathCall

SpecResolve == InitResolve /\ [][NextResolve]_vars

(***************************************************************************)
(* Properties of the resolver                                              *)
(***************************************************************************)
ResolveDone == pc = "done" /\ call.op = "resolveLineFromXPath"

\* The line holding the closing tag that matches the first opening tag of
\* `name` on line i, by matching tags one by one (also on line i itself);
\* i when that tag is self-closing, -1 when it is never closed.
RECURSIVE MatchingCloseLine(_, _, _, _, _)
MatchingCloseLine(lines, i, t, name, depth) ==
    IF i >= Len(lines) THEN -1
    ELSE IF t > Len(Line(lines, i)) THEN MatchingCloseLine(lines, i + 1, 1, name, depth)
    ELSE LET tok == Line(lines, i)[t]
         IN  IF tok.name # name \/ tok.k \notin {"open", "close", "self"}
               THEN MatchingCloseLine(lines, i, t + 1, name, depth)
             ELSE IF tok.k = "open"
               THEN MatchingCloseLine(lines, i, t + 1, name, depth + 1)
             ELSE IF tok.k = "self"
               THEN IF depth = 0 THEN i
                    ELSE MatchingCloseLine(lines, i, t + 1, name, depth)
             ELSE IF depth = 0
               THEN MatchingCloseLine(lines, i, t + 1, name, depth)
             ELSE IF depth = 1 THEN i
             ELSE MatchingCloseLine(lines, i, t + 1, name, depth - 1)

\* /Root/Container[2]/Child[1] on two sibling containers with one child each
DisambiguationPath ==
    <<Step("*", "Root", "1"), Step("cac", "Container", "2"), Step("*", "Child", "1")>>
DisambiguationDocument == <<RootOpen>> \o ItemBlock \o ItemBlock \o <<RootClose>>

\* C1: every segment after the first is resolved strictly after the opening
\* line and no later than the closing line of the element resolved for the
\* segment before it; and /Root/Container[2]/Child[1] resolves to the child
\* of the second container (line 6 of the eight-line document).
C1_ResolvedWithinParentElement ==
    ResolveDone =>
        /\ \A k \in 2..Len(ret.walk) :
              ret.walk[k].range.found =>
                  LET prev == ret.walk[k - 1]
                      close == MatchingCloseLine(call.sourceLines, prev.range.startLine,
                                                 1, prev.seg.elementName, 0)
                  IN  /\ ret.walk[k].range.startLine > prev.range.startLine
                      /\ close >= 0 => ret.walk[k].range.startLine <= close
        /\ (call.xpath = DisambiguationPath /\ call.sourceLines = DisambiguationDocument)
              => ret.line = 6

SetMax(S) == CHOOSE x \in S : \A y \in S : y <= x

\* C8: the walk stops at the first segment that cannot be resolved and the
\* result is the 1-indexed opening line of the last segment resolved before
\* it; line 1 when no segment was resolved (empty path, first segment not
\* found).
C8_StopsAtUnresolvedSegment ==
    ResolveDone =>
        LET segs == ParseXPathSegments(call.xpath)
            w == ret.walk
            n == Len(w)
            resolved == {k \in 1..n : w[k].range.found}
        IN  /\ n <= Len(segs)
            /\ \A k \in 1..n : w[k].seg = segs[k]
            /\ \A k \in 1..(n - 1) : w[k].range.found
            /\ n < Len(segs) => (n >= 1 /\ ~w[n].range.found)
            /\ \A k \in resolved :
                  OpenRegexTest(w[k].seg.elementName,
                                Line(call.sourceLines, w[k].range.startLine))
            /\ ret.line = IF resolved = {} THEN 1
                          ELSE w[SetMax(resolved)].range.startLine + 1

\* a three-segment path whose second segment fails after the first resolved
\* below line 1
C8_Witness ==
    /\ ResolveDone
    /\ Len(ParseXPathSegments(call.xpath)) = 3
    /\ Len(ret.walk) = 2
    /\ ret.walk[1].range.found
    /\ ~ret.walk[2].range.found
    /\ ret.line > 1

\* C9: the result is a single line number between 1 and the number of lines
\* of the buffer.
C9_LineWithinBuffer ==
    ResolveDone => (ret.line \in Int /\ 1 <= ret.line /\ ret.line <= Len(call.sourceLines))

\* a path that resolves to the last line of a buffer of several lines
C9_Witness ==
    /\ ResolveDone
    /\ Len(call.sourceLines) >= 4
    /\ ret.line = Len(call.sourceLines)

\* the first tag of `name` on a line opens the element without closing it
OpensNotSelfClosing(name, line) ==
    \E t \in 1..Len(line) :
        /\ line[t].k = "open" /\ line[t].name = name
        /\ \A u \in 1..(t - 1) : ~(line[u].k \in {"open", "self"} /\ line[u].name = name)

\* C22: when the matched opening line is not self-closing the extent found
\* ends at the line holding the closing tag that matches that opening, also
\* when that closing tag is on the opening line itself and whatever
\* same-named descendants were opened after it; when the opening line is
\* self-closing the extent is that single line.
C22_ExtentEndsAtMatchingClose ==
    ResolveDone =>
        \A k \in 1..Len(ret.walk) :
            ret.walk[k].range.found =>
                LET w == ret.walk[k]
                    line == Line(call.sourceLines, w.range.startLine)
                    close == MatchingCloseLine(call.sourceLines, w.range.startLine,
                                               1, w.seg.elementName, 0)
                IN  /\ SelfCloseRegexTest(w.seg.elementName, line)
                          => w.range.endLine = w.range.startLine
                    /\ (OpensNotSelfClosing(w.seg.elementName, line)
                          /\ close >= 0 /\ close <= w.rangeEnd)
                          => w.range.endLine = close

(***************************************************************************)
(* Traced execution splitter (xsltTracer.ts, parseTracedOutput)            *)
(*                                                                         *)
(* A string that the source cuts at '|' and at ':' is modelled by its      *)
(* pieces: a field is the sequence of its ':'-separated pieces, a name or  *)
(* path the sequence of its '|'-separated fields.  "cbc:ID" is             *)
(* << <<"cbc", "ID">> >>, "/t/a|b.xsl" is << <<"/t/a">>, <<"b.xsl">> >>.   *)
(***************************************************************************)
\* <!--XSLT-TRACE|f1|f2|...-->, the serialised xsl:comment
Marker(fields) == Tok("mk", "", "", fields)
\* <!--XSLT-TRACE|f1|f2... cut off before its -->
TruncatedMarker(fields) == Tok("trunc", "", "", fields)

IsDigits(field) == Len(field) = 1 /\ field[1] \in DigitStrings

TraceEntry(outputLine, sourceFile, sourceLine, elementName) ==
    [outputLine |-> outputLine, sourceFile |-> sourceFile,
     sourceLine |-> sourceLine, elementName |-> elementName]

\* a pattern without the closing -->
TraceRegexMatchesUnclosed(tok) ==
    tok.k \in {"mk", "trunc"} /\ Len(tok.f) >= 2 /\ IsDigits(tok.f[2])

\* /<!--XSLT-TRACE\|([^|]*)\|(\d+)\|(.*?)-->/ on one comment
TraceRegexMatches(tok) ==
    tok.k = "mk" /\ Len(tok.f) >= 3 /\ IsDigits(tok.f[2])

\* entries that record the clean line number 0-indexed
RECURSIVE LineTraceEntriesZeroIndexed(_, _)
LineTraceEntriesZeroIndexed(line, cleanLineNum) ==
    IF line = <<>> THEN <<>>
    ELSE LET tok == Head(line)
             rest == LineTraceEntriesZeroIndexed(Tail(line), cleanLineNum)
         IN  IF TraceRegexMatches(tok)
               THEN <<TraceEntry(cleanLineNum, <<tok.f[1]>>, ParseInt(tok.f[2][1]),
                                 SubSeq(tok.f, 3, Len(tok.f)))>> \o rest
               ELSE rest

\* the while loop over lineTraceRegex.exec(line)
RECURSIVE LineTraceEntries(_, _)
LineTraceEntries(line, cleanLineNum) ==
    IF line = <<>> THEN <<>>
    ELSE LET tok == Head(line)
             rest == LineTraceEntries(Tail(line), cleanLineNum)
         IN  IF TraceRegexMatches(tok)
               THEN <<TraceEntry(cleanLineNum + 1, <<tok.f[1]>>, ParseInt(tok.f[2][1]),
                                 SubSeq(tok.f, 3, Len(tok.f)))>> \o rest
               ELSE rest

\* a replace without the g flag: only the first trace comment is removed
RECURSIVE StripFirstTraceComment(_)
StripFirstTraceComment(line) ==
    IF line = <<>> THEN <<>>
    ELSE IF Head(line).k = "mk" THEN Tail(line)
    ELSE <<Head(line)>> \o StripFirstTraceComment(Tail(line))

\* line.replace(/<!--XSLT-TRACE\|.*?-->/g, '')
RECURSIVE StripTraceComments(_)
StripTraceComments(line) ==
    IF line = <<>> THEN <<>>
    ELSE IF Head(line).k = "mk" THEN StripTraceComments(Tail(line))
    ELSE <<Head(line)>> \o StripTraceComments(Tail(line))

\* cleaned.trim() !== ''
TrimNonEmpty(cleaned) == \E t \in 1..Len(cleaned) : cleaned[t].k # "ws"

\* line.includes(TRACE_COMMENT_PREFIX)
IncludesTracePrefix(line) == \E t \in 1..Len(line) : line[t].k \in {"mk", "trunc"}

\* a test that keeps only the lines with content
KeepLineNonBlankOnly(line, cleaned) == TrimNonEmpty(cleaned)

KeepLine(line, cleaned) == TrimNonEmpty(cleaned) \/ ~IncludesTracePrefix(line)

\* the for loop of parseTracedOutput over lines[k..]
RECURSIVE SplitTracedLines(_, _, _, _)
SplitTracedLines(lines, cleanLines, cleanLineNum, traceEntries) ==
    IF lines = <<>>
      THEN [cleanOutput |-> JoinLines(cleanLines), traceEntries |-> traceEntries]
    ELSE LET line == Head(lines)
             entries == traceEntries \o LineTraceEntries(line, cleanLineNum)
             cleaned == StripTraceComments(line)
         IN  IF KeepLine(line, cleaned)
               THEN SplitTracedLines(Tail(lines), Append(cleanLines, cleaned),
                                     cleanLineNum + 1, entries)
               ELSE SplitTracedLines(Tail(lines), cleanLines, cleanLineNum, entries)

ParseTracedOutput(raw) == SplitTracedLines(SplitLines(raw), <<>>, 0, <<>>)

(***************************************************************************)
(* Inputs of the splitter: the raw output of an instrumented run.  Each    *)
(* raw line is given with the line of the uninstrumented output it stems   *)
(* from: a line the instrumentation added (a marker-only line), or an      *)
(* original line with markers put next to its content.                     *)
(***************************************************************************)
MaxRawLines == 3

MarkerA == Marker(<< <<"/t/a.xsl">>, <<"4">>, <<"cbc", "ID">> >>)
MarkerB == Marker(<< <<"/t/a.xsl">>, <<"7">>, <<"Party">> >>)
\* the marker of a program whose path is /t/a|b.xsl
MarkerPipePath == Marker(<< <<"/t/a">>, <<"b.xsl">>, <<"4">>, <<"cbc", "ID">> >>)

ContentLineA == <<OpenTag("cbc", "ID"), Txt("INV-1"), CloseTag("cbc", "ID")>>
ContentLineB == <<Ws, OpenTag("cac", "Party")>>

\* orig: the uninstrumented line (none for an inserted line); proper: the
\* markers were inserted as a marker-only line or next to real content
InsertedLine(raw) == [inserted |-> TRUE, orig |-> <<>>, raw |-> raw, proper |-> TRUE]
OriginalLine(orig, raw, proper) ==
    [inserted |-> FALSE, orig |-> orig, raw |-> raw, proper |-> proper]

RawLineForms ==
    {InsertedLine(<<MarkerA>>),
     InsertedLine(<<Ws, MarkerB>>),
     InsertedLine(<<Ws, MarkerA, MarkerB, Ws>>),
     InsertedLine(<<MarkerPipePath>>),
     OriginalLine(EmptyLine, EmptyLine, TRUE),
     OriginalLine(<<Ws>>, <<Ws>>, TRUE),
     OriginalLine(ContentLineA, ContentLineA, TRUE),
     OriginalLine(ContentLineB, ContentLineB, TRUE),
     OriginalLine(ContentLineA, <<MarkerA>> \o ContentLineA, TRUE),
     OriginalLine(ContentLineB, <<Ws, MarkerB, OpenTag("cac", "Party"), MarkerA>>, TRUE),
     \* a marker on an original line that is blank
     OriginalLine(<<Ws>>, <<Ws, MarkerA>>, FALSE)}

RawPlans == SeqsUpTo(RawLineForms, MaxRawLines) \ {<<>>}

RECURSIVE PlanRaw(_)
PlanRaw(plan) == IF plan = <<>> THEN <<>> ELSE <<Head(plan).raw>> \o PlanRaw(Tail(plan))

RECURSIVE PlanOriginal(_)
PlanOriginal(plan) ==
    IF plan = <<>> THEN <<>>
    ELSE (IF Head(plan).inserted THEN <<>> ELSE <<Head(plan).orig>>)
            \o PlanOriginal(Tail(plan))

\* the execution was cut off inside a marker: the text ends with its beginning
Truncate(raw) ==
    [raw EXCEPT ![Len(raw)] = Append(@, TruncatedMarker(<< <<"/t/a.xsl">>, <<"4">> >>))]

InitTrace ==
    /\ \E plan \in RawPlans, cut \in BOOLEAN :
          call = [op |-> "parseTracedOutput",
                  raw |-> IF cut THEN Truncate(PlanRaw(plan)) ELSE PlanRaw(plan),
                  original |-> PlanOriginal(plan),
                  proper |-> ~cut /\ \A k \in 1..Len(plan) : plan[k].proper]
    /\ ret = Pending
    /\ pc = "call"

\* runInstrumentedTransform -> parseTracedOutput(rawOutput)
ParseTracedOutputCall ==
    /\ pc = "call"
    /\ call.op = "parseTracedOutput"
    /\ ret' = [op |-> call.op] @@ ParseTracedOutput(call.raw)
    /\ pc' = "done"
    /\ UNCHANGED call

NextTrace == ParseTracedOutputCall

SpecTrace == InitTrace /\ [][NextTrace]_vars

(***************************************************************************)
(* Properties of the splitter                                              *)
(***************************************************************************)
TraceDone == pc = "done" /\ call.op = "parseTracedOutput"

HasMarker(line) == \E t \in 1..Len(line) : line[t].k = "mk"
\* only markers and whitespace, and at least one marker
MarkerOnly(line) ==
    HasMarker(line) /\ \A t \in 1..Len(line) : line[t].k \in {"mk", "ws"}
WithoutMarkers(line) == SelectSeq(line, LAMBDA tok : tok.k # "mk")

\* the raw lines (1-indexed) that are not marker-only
RetainedBefore(raw, i) == {j \in 1..(i - 1) : ~MarkerOnly(raw[j])}

\* C2: for markers inserted as marker-only lines or next to real content,
\* the clean output is the original marker-free lines joined by newlines.
C2_RoundTrip ==
    (TraceDone /\ call.proper) => ret.cleanOutput = JoinLines(call.original)

\* an original with a blank line, with an inserted marker line and with a
\* marker next to content
C2_Witness ==
    /\ TraceDone
    /\ call.proper
    /\ \E i, j, k \in 1..Len(call.raw) :
          /\ MarkerOnly(call.raw[i])
          /\ HasMarker(call.raw[j]) /\ ~MarkerOnly(call.raw[j])
          /\ call.raw[k] \in {EmptyLine, <<Ws>>}
    /\ Len(call.original) = 2

\* the markers of raw line i that yield an entry, as their entries should be
RECURSIVE ExpectedLineEntries(_, _)
ExpectedLineEntries(line, outputLine) ==
    IF line = <<>> THEN <<>>
    ELSE (IF TraceRegexMatches(Head(line))
            THEN <<[outputLine |-> outputLine, marker |-> Head(line)]>> ELSE <<>>)
            \o ExpectedLineEntries(Tail(line), outputLine)

RECURSIVE ExpectedEntries(_, _)
ExpectedEntries(raw, i) ==
    IF i > Len(raw) THEN <<>>
    ELSE ExpectedLineEntries(raw[i], 1 + Cardinality(RetainedBefore(raw, i)))
            \o ExpectedEntries(raw, i + 1)

\* C3: every marker yields its own entry, in order, whose outputLine is 1
\* plus the number of raw lines retained before the raw line of the marker;
\* when that raw line is retained, it is line outputLine of the clean
\* output.
C3_OutputLineIsCleanLineNumber ==
    TraceDone =>
        LET expected == ExpectedEntries(call.raw, 1)
        IN  /\ Len(ret.traceEntries) = Len(expected)
            /\ \A n \in 1..Len(expected) :
                  ret.traceEntries[n].outputLine = expected[n].outputLine
            /\ \A i \in 1..Len(call.raw) :
                  (HasMarker(call.raw[i]) /\ ~MarkerOnly(call.raw[i])) =>
                      ret.cleanOutput[1 + Cardinality(RetainedBefore(call.raw, i))]
                          = WithoutMarkers(call.raw[i])

\* two markers of one raw line carry the same outputLine, beyond line 1, and
\* a marker-only line precedes a retained one
C3_Witness ==
    /\ TraceDone
    /\ \E n \in 1..(Len(ret.traceEntries) - 1) :
          /\ ret.traceEntries[n].outputLine = ret.traceEntries[n + 1].outputLine
          /\ ret.traceEntries[n].outputLine = 2
          /\ ret.traceEntries[n].sourceLine # ret.traceEntries[n + 1].sourceLine
    /\ \E i \in 1..(Len(call.raw) - 1) :
          MarkerOnly(call.raw[i]) /\ ~MarkerOnly(call.raw[i + 1])
    /\ Len(ret.cleanOutput) = 2

RECURSIVE ExpectedCleanLines(_)
ExpectedCleanLines(raw) ==
    IF raw = <<>> THEN <<>>
    ELSE (IF MarkerOnly(Head(raw)) THEN <<>>
          ELSE IF HasMarker(Head(raw)) THEN <<WithoutMarkers(Head(raw))>>
          ELSE <<Head(raw)>>)
            \o ExpectedCleanLines(Tail(raw))

\* C4: marker-only lines are dropped and do not advance the line counter,
\* lines with a marker next to content are kept without their markers,
\* lines without a marker are kept unchanged, all in their order.
C4_DroppedAndKeptLines ==
    TraceDone =>
        /\ ret.cleanOutput = JoinLines(ExpectedCleanLines(call.raw))
        /\ \A n \in 1..Len(ret.traceEntries) :
              ret.traceEntries[n].outputLine <= Len(ExpectedCleanLines(call.raw)) + 1

\* a marker-only line, a line with two markers next to content and a line
\* without a marker
C4_Witness ==
    /\ TraceDone
    /\ \E i, j, k \in 1..Len(call.raw) :
          /\ i < j
          /\ MarkerOnly(call.raw[i]) /\ Ws \in {call.raw[i][t] : t \in 1..Len(call.raw[i])}
          /\ ~MarkerOnly(call.raw[j])
          /\ Cardinality({t \in 1..Len(call.raw[j]) : call.raw[j][t].k = "mk"}) = 2
          /\ ~HasMarker(call.raw[k]) /\ call.raw[k] # EmptyLine
    /\ Len(ret.cleanOutput) = 2

\* the call returns: the loop over the lines is finite
SpecTraceFair == SpecTrace /\ WF_vars(NextTrace)

\* the complete markers of a text that the extraction pattern accepts
CompleteMarkers(raw) ==
    SelectSeq(Flatten(raw),
              LAMBDA tok : tok.k = "mk" /\ Len(tok.f) >= 3 /\ IsDigits(tok.f[2]))

\* a clean output of at least one line and one entry for every complete
\* marker; the beginning of a marker that was cut off stays in its line
TraceResult ==
    /\ TraceDone
    /\ DOMAIN ret = {"op", "cleanOutput", "traceEntries"}
    /\ Len(ret.cleanOutput) >= 1
    /\ Len(ret.traceEntries) = Len(CompleteMarkers(call.raw))
    /\ \A i \in 1..Len(call.raw) :
          (\E t \in 1..Len(call.raw[i]) : call.raw[i][t].k = "trunc")
              => \E c \in 1..Len(ret.cleanOutput) :
                    \E t \in 1..Len(ret.cleanOutput[c]) : ret.cleanOutput[c][t].k = "trunc"

\* C20: for every input text, the empty text and a text cut off inside a
\* marker included, parseTracedOutput ends with a result, a clean output and
\* trace entries.
C20_ResultForEveryText ==
    (pc = "call" /\ call.op = "parseTracedOutput") ~> TraceResult

\* a text cut off inside a marker, after a complete marker
C20_Witness ==
    /\ TraceResult
    /\ \E t \in 1..Len(call.raw[Len(call.raw)]) : call.raw[Len(call.raw)][t].k = "trunc"
    /\ Len(ret.traceEntries) >= 1

(***************************************************************************)
(* Violation-to-source mapper (errorTraceMapper.ts)                        *)
(*                                                                         *)
(* A message is a sequence of message tokens: plain words, prefixed names  *)
(* (cbc:Name), the XSD phrase Element '{ns}Name', the word Expected, a     *)
(* braced name {ns}Name and the phrase "should not include the".           *)
(***************************************************************************)
MsgTok(k, pre, name) == [k |-> k, pre |-> pre, name |-> name]
Word(w) == MsgTok("word", "", w)
QName(pre, name) == MsgTok("qname", pre, name)
\* Element 'Name' (ns = "") or Element '{ns}Name'
ElementQuoted(ns, name) == MsgTok("elemq", ns, name)
ExpectedWord == MsgTok("expected", "", "Expected")
Braced(name) == MsgTok("braced", "{}", name)
NotIncludeThe == MsgTok("notinclude", "", "")

\* RULE_TARGET_ELEMENTS[ruleId], <<>> for a rule id that is no key
RuleTargetElements(ruleId) ==
    CASE ruleId = "BR-01" -> <<"CustomizationID">>
      [] ruleId = "BR-02" -> <<"ID">>
      [] ruleId = "BR-03" -> <<"IssueDate">>
      [] ruleId = "BR-04" -> <<"InvoiceTypeCode", "CreditNoteTypeCode">>
      [] ruleId = "BR-05" -> <<"DocumentCurrencyCode">>
      [] ruleId = "BR-06" -> <<"RegistrationName", "PartyLegalEntity", "AccountingSupplierParty">>
      [] ruleId = "BR-07" -> <<"RegistrationName", "PartyLegalEntity", "AccountingCustomerParty">>
      [] ruleId = "BR-08" -> <<"PostalAddress", "AccountingSupplierParty">>
      [] ruleId = "BR-09" -> <<"AddressLine", "PostalAddress", "AccountingSupplierParty">>
      [] ruleId = "BR-10" -> <<"PostalAddress", "AccountingCustomerParty">>
      [] ruleId = "BR-11" -> <<"IdentificationCode", "Country", "PostalAddress">>
      [] ruleId = "BR-12" -> <<"LineExtensionAmount", "LegalMonetaryTotal">>
      [] ruleId = "BR-13" -> <<"TaxExclusiveAmount", "LegalMonetaryTotal">>
      [] ruleId = "BR-14" -> <<"TaxInclusiveAmount", "LegalMonetaryTotal">>
      [] ruleId = "BR-15" -> <<"PayableAmount", "LegalMonetaryTotal">>
      [] ruleId = "BR-16" -> <<"InvoiceLine", "CreditNoteLine">>
      [] ruleId = "BR-17" -> <<"PayableRoundingAmount", "LegalMonetaryTotal">>
      [] ruleId = "BR-51" -> <<"PrimaryAccountNumberID", "CardAccount">>
      [] ruleId = "BR-52" -> <<"ID", "AdditionalDocumentReference">>
      [] ruleId = "BR-53" -> <<"TaxCurrencyCode", "TaxAmount", "TaxTotal">>
      [] ruleId = "BR-55" -> <<"EndpointID", "AccountingSupplierParty">>
      [] ruleId = "BR-56" -> <<"CompanyID", "PartyTaxScheme", "AccountingSupplierParty">>
      [] ruleId = "BR-57" -> <<"IdentificationCode", "Country", "DeliveryLocation">>
      [] ruleId = "BR-61" -> <<"PaymentMeansCode", "PaymentMeans">>
      [] ruleId = "BR-62" -> <<"EndpointID", "AccountingSupplierParty">>
      [] ruleId = "BR-63" -> <<"EndpointID", "AccountingCustomerParty">>
      [] ruleId = "BR-64" -> <<"LineExtensionAmount", "InvoiceLine">>
      [] ruleId = "BR-65" -> <<"TaxableAmount", "TaxSubtotal", "TaxTotal">>
      [] ruleId = "BR-66" -> <<"CardAccount", "PaymentMeans">>
      [] ruleId = "BR-67" -> <<"PaymentMandate", "PaymentMeans">>
      [] ruleId = "BR-CO-03" -> <<"TaxPointDate", "InvoicePeriod">>
      [] ruleId = "BR-CO-04" -> <<"PayableAmount", "LegalMonetaryTotal">>
      [] ruleId = "BR-CO-10" -> <<"LineExtensionAmount", "LegalMonetaryTotal">>
      [] ruleId = "BR-CO-11" -> <<"AllowanceTotalAmount", "LegalMonetaryTotal">>
      [] ruleId = "BR-CO-12" -> <<"ChargeTotalAmount", "LegalMonetaryTotal">>
      [] ruleId = "BR-CO-13" -> <<"TaxExclusiveAmount", "LegalMonetaryTotal">>
      [] ruleId = "BR-CO-15" -> <<"TaxInclusiveAmount", "LegalMonetaryTotal">>
      [] ruleId = "BR-CO-16" -> <<"PayableAmount", "LegalMonetaryTotal">>
      [] ruleId = "BR-CO-18" -> <<"TaxSubtotal", "TaxTotal">>
      [] ruleId = "BR-CO-25" -> <<"PaymentDueDate", "PaymentTerms">>
      [] ruleId = "BR-CO-26" -> <<"PrepaidAmount", "LegalMonetaryTotal">>
      [] ruleId = "BR-DEC-09" -> <<"LineExtensionAmount", "LegalMonetaryTotal">>
      [] ruleId = "BR-DEC-10" -> <<"AllowanceTotalAmount", "LegalMonetaryTotal">>
      [] ruleId = "BR-DEC-11" -> <<"ChargeTotalAmount", "LegalMonetaryTotal">>
      [] ruleId = "BR-DEC-12" -> <<"TaxExclusiveAmount", "LegalMonetaryTotal">>
      [] ruleId = "BR-DEC-13" -> <<"TaxAmount", "TaxTotal">>
      [] ruleId = "BR-DEC-14" -> <<"TaxInclusiveAmount", "LegalMonetaryTotal">>
      [] ruleId = "BR-DEC-15" -> <<"TaxAmount", "TaxTotal">>
      [] ruleId = "BR-DEC-16" -> <<"PrepaidAmount", "LegalMonetaryTotal">>
      [] ruleId = "BR-DEC-17" -> <<"PayableRoundingAmount", "LegalMonetaryTotal">>
      [] ruleId = "BR-DEC-18" -> <<"PayableAmount", "LegalMonetaryTotal">>
      [] ruleId = "PEPPOL-EN16931-R001" -> <<"CustomizationID">>
      [] ruleId = "PEPPOL-EN16931-R002" -> <<"ProfileID">>
      [] ruleId = "PEPPOL-EN16931-R004" -> <<"TaxAmount", "TaxTotal">>
      [] ruleId = "PEPPOL-EN16931-R006" -> <<"TaxAmount", "TaxTotal">>
      [] ruleId = "PEPPOL-EN16931-R007" -> <<"TaxCurrencyCode">>
      [] ruleId = "PEPPOL-EN16931-R008" -> <<"DocumentCurrencyCode">>
      [] ruleId = "PEPPOL-EN16931-R010" -> <<"EndpointID", "AccountingCustomerParty">>
      [] ruleId = "PEPPOL-EN16931-R020" -> <<"EndpointID", "AccountingSupplierParty">>
      [] ruleId = "PEPPOL-EN16931-R053" -> <<"OrderReference">>
      [] ruleId = "PEPPOL-EN16931-R054" -> <<"InvoicePeriod">>
      [] ruleId = "PEPPOL-EN16931-R055" -> <<"AccountingCustomerParty">>
      [] ruleId = "PEPPOL-EN16931-R061" -> <<"PaymentMeansCode", "PaymentMeans">>
      [] ruleId = "PEPPOL-EN16931-R080" -> <<"TaxSubtotal", "TaxTotal">>
      [] ruleId = "PEPPOL-EN16931-R100" -> <<"Note">>
      [] ruleId = "PEPPOL-EN16931-R101" -> <<"Note">>
      [] OTHER -> <<>>

\* a push without the includes test
PushAlways(names, n) == Append(names, n)

\* names.includes(n) || names.push(n)
PushNew(names, n) ==
    IF \E k \in 1..Len(names) : names[k] = n THEN names ELSE Append(names, n)

RECURSIVE PushAllNew(_, _)
PushAllNew(names, more) ==
    IF more = <<>> THEN names ELSE PushAllNew(PushNew(names, Head(more)), Tail(more))

\* the words of the model that match /^[A-Z][a-zA-Z]{2,}$/
CapitalisedWords ==
    {"Party", "Name", "Invoice", "Note", "PartyName", "InvoiceLine",
     "AccountingSupplierParty", "Expected", "Element"}
\* the words of the model that match /\b([A-Z][a-z]+(?:[A-Z][a-z]+)+)\b/
PascalCaseWords == {"PartyName", "InvoiceLine", "AccountingSupplierParty"}

\* (?:cbc|cac|ubl|ext):
NamespacePrefixes == {"cbc", "cac", "ubl", "ext"}

\* Strategy 2: message.match(/Element\s+'(?:\{[^}]*\})?(NAME)'/i), first match
XsdElementName(message) ==
    LET hits == {k \in 1..Len(message) : message[k].k = "elemq"}
    IN  IF hits = {} THEN <<>>
        ELSE <<message[CHOOSE k \in hits : \A h \in hits : k <= h].name>>

\* Strategy 3: every (?:cbc|cac|ubl|ext):NAME, in order
RECURSIVE PrefixedNames(_)
PrefixedNames(message) ==
    IF message = <<>> THEN <<>>
    ELSE (IF Head(message).k = "qname" /\ Head(message).pre \in NamespacePrefixes
            THEN <<Head(message).name>> ELSE <<>>)
            \o PrefixedNames(Tail(message))

\* Strategy 4: /Expected.*?\{[^}]*\}(NAME)/g; `armed` after an Expected
RECURSIVE ExpectedNames(_, _)
ExpectedNames(message, armed) ==
    IF message = <<>> THEN <<>>
    ELSE LET tok == Head(message)
             braced == tok.k = "braced" \/ (tok.k = "elemq" /\ tok.pre # "")
         IN  IF armed /\ braced
               THEN <<tok.name>> \o ExpectedNames(Tail(message), FALSE)
               ELSE ExpectedNames(Tail(message), armed \/ tok.k = "expected")

\* the whitespace-separated word a token stands for in the rest of the
\* message, "" when it is no single word of letters
WordOf(tok) ==
    IF tok.k \in {"word", "expected"} THEN tok.name
    ELSE IF tok.k = "elemq" THEN "Element"
    ELSE ""

RECURSIVE ReversedPathWords(_)
ReversedPathWords(rest) ==
    IF rest = <<>> THEN <<>>
    ELSE ReversedPathWords(Tail(rest))
            \o (IF WordOf(Head(rest)) \in CapitalisedWords
                  THEN <<WordOf(Head(rest))>> ELSE <<>>)

\* Strategy 5: /(?:should|shall|must) not include the (.+)/i, the words of
\* the rest that match /^[A-Z][a-zA-Z]{2,}$/, last word first
CrPathNames(message) ==
    LET hits == {k \in 1..Len(message) : message[k].k = "notinclude"}
    IN  IF hits = {} THEN <<>>
        ELSE LET first == CHOOSE k \in hits : \A h \in hits : k <= h
             IN  ReversedPathWords(SubSeq(message, first + 1, Len(message)))

\* Strategy 6: every PascalCase compound word, in order
RECURSIVE PascalCaseNames(_)
PascalCaseNames(message) ==
    IF message = <<>> THEN <<>>
    ELSE (IF Head(message).k \in {"word", "qname", "braced", "elemq"}
             /\ Head(message).name \in PascalCaseWords
            THEN <<Head(message).name>> ELSE <<>>)
            \o PascalCaseNames(Tail(message))

NoRuleId == ""

ExtractErrorElementNames(message, ruleId) ==
    LET s1 == IF ruleId # NoRuleId THEN RuleTargetElements(ruleId) ELSE <<>>
        s2 == PushAllNew(s1, XsdElementName(message))
        s3 == PushAllNew(s2, PrefixedNames(message))
        s4 == PushAllNew(s3, ExpectedNames(message, FALSE))
        s5 == PushAllNew(s4, CrPathNames(message))
    IN  IF s5 = <<>> THEN PushAllNew(s5, PascalCaseNames(message)) ELSE s5

\* entry.elementName.includes(':') ? entry.elementName.split(':')[1] : ...
\* compared with a name that has neither ':' nor '|'
TraceMatchesElement(entry, elementName) ==
    LET name == entry.elementName
        withColon == {i \in 1..Len(name) : Len(name[i]) >= 2}
    IN  IF withColon = {}
          THEN Len(name) = 1 /\ name[1] = <<elementName>>
          ELSE LET i == CHOOSE x \in withColon : \A y \in withColon : x <= y
               IN  /\ (Len(name[i]) >= 3 \/ i = Len(name))
                   /\ name[i][2] = elementName

\* a search that returns the last line that opens the element
RECURSIVE FindLastElementLineInOutput(_, _)
FindLastElementLineInOutput(elementName, outputLines) ==
    IF outputLines = <<>> THEN 0
    ELSE IF OpenRegexTest(elementName, outputLines[Len(outputLines)])
      THEN Len(outputLines)
    ELSE FindLastElementLineInOutput(elementName,
                                     SubSeq(outputLines, 1, Len(outputLines) - 1))

\* 1-indexed line of the first line that opens the element, 0 for null
FindElementLineInOutput(elementName, outputLines) ==
    LET hits == {i \in 1..Len(outputLines) : OpenRegexTest(elementName, outputLines[i])}
    IN  IF hits = {} THEN 0 ELSE CHOOSE i \in hits : \A h \in hits : i <= h

ROOT_ELEMENTS ==
    {"Invoice", "CreditNote", "DebitNote", "Order", "OrderResponse",
     "DespatchAdvice", "ReceiptAdvice", "Catalogue", "ApplicationResponse"}

\* [...traceEntries].sort((a, b) => a.outputLine - b.outputLine), stable
RECURSIVE InsertByOutputLine(_, _)
InsertByOutputLine(sorted, e) ==
    IF sorted = <<>> THEN <<e>>
    ELSE IF sorted[Len(sorted)].outputLine <= e.outputLine THEN Append(sorted, e)
    ELSE Append(InsertByOutputLine(SubSeq(sorted, 1, Len(sorted) - 1), e),
                sorted[Len(sorted)])

RECURSIVE SortLoop(_, _)
SortLoop(entries, sorted) ==
    IF entries = <<>> THEN sorted
    ELSE SortLoop(Tail(entries), InsertByOutputLine(sorted, Head(entries)))

\* a mapper that uses the entries in the order given
UnsortedEntries(traceEntries) == traceEntries

SortByOutputLine(traceEntries) == SortLoop(traceEntries, <<>>)

\* traceEntries.sort(...): the argument itself is sorted
SortedInPlace(traceEntries) ==
    [sorted |-> SortByOutputLine(traceEntries),
     argument |-> SortByOutputLine(traceEntries)]

\* [...traceEntries].sort(...): the copy is sorted, the argument keeps its
\* order
SortedCopy(traceEntries) ==
    [sorted |-> SortByOutputLine(traceEntries), argument |-> traceEntries]

\* a TracedIssue: the optional fields hold no or one value
Untraced(issue) ==
    issue @@ [xsltSourceFile |-> <<>>, xsltSourceLine |-> <<>>, xsltElementName |-> <<>>]

LinkTo(traced, entry) ==
    [traced EXCEPT !.xsltSourceFile = <<entry.sourceFile>>,
                   !.xsltSourceLine = <<entry.sourceLine>>,
                   !.xsltElementName = <<entry.elementName>>]

\* the for loop of linkNearestTraceAt over sorted[k..]
RECURSIVE NearestLoop(_, _, _, _)
NearestLoop(sorted, k, line, nearest) ==
    IF k > Len(sorted) THEN nearest
    ELSE IF sorted[k].outputLine <= line THEN NearestLoop(sorted, k + 1, line, <<sorted[k]>>)
    ELSE nearest

\* a link to the first entry, wherever it lies
LinkFirstTraceAt(traced, sorted, line) ==
    IF sorted # <<>> THEN LinkTo(traced, sorted[1]) ELSE traced

LinkNearestTraceAt(traced, sorted, line) ==
    LET nearest == NearestLoop(sorted, 1, line, <<>>)
    IN  IF nearest # <<>> THEN LinkTo(traced, nearest[1]) ELSE traced

\* a fallback that never links
LinkNearestTraceSkipped(traced, sorted) == traced

LinkNearestTrace(traced, sorted) == LinkNearestTraceAt(traced, sorted, traced.line)

\* sorted.find(e => traceMatchesElement(e, elementName)), <<>> for undefined
FindTraceMatch(sorted, elementName) ==
    LET hits == {k \in 1..Len(sorted) : TraceMatchesElement(sorted[k], elementName)}
    IN  IF hits = {} THEN <<>>
        ELSE <<sorted[CHOOSE k \in hits : \A h \in hits : k <= h]>>

\* a search that takes the first entry matching any of the names
FirstEntryOfAnyName(specificElements, sorted) ==
    LET hits == {k \in 1..Len(sorted) :
                    \E n \in 1..Len(specificElements) :
                        TraceMatchesElement(sorted[k], specificElements[n])}
    IN  IF hits = {} THEN <<>>
        ELSE <<sorted[CHOOSE k \in hits : \A h \in hits : k <= h]>>

\* the first for loop of the map callback: the match of the first name that has one
RECURSIVE FirstTraceMatch(_, _)
FirstTraceMatch(specificElements, sorted) ==
    IF specificElements = <<>> THEN <<>>
    ELSE LET match == FindTraceMatch(sorted, Head(specificElements))
         IN  IF match # <<>> THEN match
             ELSE FirstTraceMatch(Tail(specificElements), sorted)

\* the second for loop: the output line of the first name found in the output
RECURSIVE FirstOutputLine(_, _)
FirstOutputLine(specificElements, outputLines) ==
    IF specificElements = <<>> THEN 0
    ELSE LET outputLine == FindElementLineInOutput(Head(specificElements), outputLines)
         IN  IF outputLine # 0 THEN outputLine
             ELSE FirstOutputLine(Tail(specificElements), outputLines)

\* a callback without the test issue.line > 2
MapIssueLinkingAlways(issue, sorted, outputLines) ==
    LET traced == Untraced(issue)
        errorElements == ExtractErrorElementNames(issue.message, issue.ruleId)
        specificElements == SelectSeq(errorElements, LAMBDA n : n \notin ROOT_ELEMENTS)
        match == FirstTraceMatch(specificElements, sorted)
        outputLine == IF Len(outputLines) > 0
                        THEN FirstOutputLine(specificElements, outputLines) ELSE 0
    IN  IF Len(specificElements) = 0 THEN LinkNearestTrace(traced, sorted)
        ELSE IF match # <<>>
          THEN LinkTo([traced EXCEPT !.line = match[1].outputLine], match[1])
        ELSE IF outputLine # 0
          THEN LinkNearestTraceAt([traced EXCEPT !.line = outputLine], sorted, outputLine)
        ELSE LinkNearestTrace(traced, sorted)

\* the callback of issues.map in mapIssuesToXsltSource
MapIssue(issue, sorted, outputLines) ==
    LET traced == Untraced(issue)
        errorElements == ExtractErrorElementNames(issue.message, issue.ruleId)
        specificElements == SelectSeq(errorElements, LAMBDA n : n \notin ROOT_ELEMENTS)
        match == FirstTraceMatch(specificElements, sorted)
        outputLine == IF Len(outputLines) > 0
                        THEN FirstOutputLine(specificElements, outputLines) ELSE 0
    IN  IF Len(specificElements) = 0
          THEN IF issue.line > 2 THEN LinkNearestTrace(traced, sorted) ELSE traced
        ELSE IF match # <<>>
          THEN LinkTo([traced EXCEPT !.line = match[1].outputLine], match[1])
        ELSE IF outputLine # 0
          THEN LinkNearestTraceAt([traced EXCEPT !.line = outputLine], sorted, outputLine)
        ELSE IF issue.line > 2 THEN LinkNearestTrace(traced, sorted)
        ELSE traced

\* outputContent: [given |-> FALSE] for an omitted argument
NoOutput == [given |-> FALSE, text |-> <<>>]
Output(text) == [given |-> TRUE, text |-> text]
\* !outputContent: omitted, or the empty string
OutputFalsy(outputContent) ==
    ~outputContent.given \/ outputContent.text \in {<<>>, <<EmptyLine>>}

MapIssuesToXsltSource(issues, traceEntries, outputContent) ==
    IF Len(traceEntries) = 0 /\ OutputFalsy(outputContent)
      THEN [n \in 1..Len(issues) |-> Untraced(issues[n])]
      ELSE LET sorted == SortedCopy(traceEntries).sorted
               outputLines == IF OutputFalsy(outputContent) THEN <<>>
                              ELSE SplitLines(outputContent.text)
           IN  [n \in 1..Len(issues) |-> MapIssue(issues[n], sorted, outputLines)]

\* the caller's arrays after the call: the callback writes to the copy
\* { ...issue } only, the entries are sorted in a copy
ArgumentsAfter(issues, traceEntries, outputContent) ==
    [issues |-> issues,
     traceEntries |-> IF Len(traceEntries) = 0 /\ OutputFalsy(outputContent)
                        THEN traceEntries
                        ELSE SortedCopy(traceEntries).argument]

(***************************************************************************)
(* Inputs of the mapper                                                    *)
(***************************************************************************)
MaxIssues == 1
MaxTraceEntries == 3

Issue(line, message, ruleId) ==
    [line |-> line, column |-> 0, message |-> message, severity |-> "Error",
     ruleId |-> ruleId, source |-> "en16931"]

MustExist == <<Word("must"), Word("exist")>>

MapIssues ==
    {\* no element name, at the default line and below it
     Issue(1, MustExist, NoRuleId),
     Issue(9, MustExist, NoRuleId),
     \* no element name, on the second line
     Issue(2, MustExist, NoRuleId),
     \* BR-02 -> ID
     Issue(1, MustExist, "BR-02"),
     \* cbc:Name before cac:Party
     Issue(4, <<QName("cbc", "Name"), Word("must"), QName("cac", "Party")>>, NoRuleId),
     \* only the document root is named
     Issue(2, <<QName("ubl", "Invoice")>> \o MustExist, NoRuleId),
     \* Element '{ns}Note': ... Expected is ( {ns}PartyName )
     Issue(1, <<ElementQuoted("{}", "Note"), Word("not"), ExpectedWord,
                Braced("PartyName")>>, NoRuleId)}

\* lists of two issues that differ in every field
MapIssuePairs ==
    {<<Issue(1, MustExist, "BR-02"),
       [Issue(4, <<QName("cbc", "Name"), Word("must"), QName("cac", "Party")>>, NoRuleId)
          EXCEPT !.severity = "Warning", !.source = "peppol", !.column = 5]>>,
     <<[Issue(9, MustExist, NoRuleId) EXCEPT !.source = "xsd"],
       Issue(1, MustExist, "BR-02")>>}

TraceFile == << <<"/t/a.xsl">> >>

MapTraceEntries ==
    {\* the document root, opened on the first line of the output
     TraceEntry(1, TraceFile, 3, << <<"Invoice">> >>),
     TraceEntry(3, TraceFile, 4, << <<"cbc", "ID">> >>),
     TraceEntry(7, TraceFile, 7, << <<"cac", "Party">> >>),
     TraceEntry(12, TraceFile, 9, << <<"Name">> >>),
     TraceEntry(7, TraceFile, 10, << <<"cbc", "ID">> >>)}

\* PartyName opens on line 2, Name on line 3, Note on lines 5 and 6
OutputWithNote ==
    << <<OpenTag("", "Invoice")>>,
       <<Ws, OpenTag("cac", "PartyName")>>,
       <<Ws, OpenTag("cbc", "Name"), Txt("x"), CloseTag("cbc", "Name")>>,
       <<Ws, CloseTag("cac", "PartyName")>>,
       <<Ws, OpenTag("cbc", "Note"), Txt("n"), CloseTag("cbc", "Note")>>,
       <<Ws, SelfTag("cbc", "Note")>>,
       <<CloseTag("", "Invoice")>> >>
OutputWithoutNames ==
    << <<OpenTag("", "Invoice")>>,
       <<Ws, OpenTag("cbc", "ID"), Txt("INV-1"), CloseTag("cbc", "ID")>>,
       <<CloseTag("", "Invoice")>> >>

MapOutputs ==
    {NoOutput, Output(<<EmptyLine>>), Output(OutputWithNote), Output(OutputWithoutNames)}

InitMap ==
    /\ \E is \in SeqsUpTo(MapIssues, MaxIssues) \cup MapIssuePairs,
          es \in SeqsUpTo(MapTraceEntries, MaxTraceEntries),
          out \in MapOutputs :
          call = [op |-> "mapIssuesToXsltSource", issues |-> is,
                  traceEntries |-> es, outputContent |-> out]
    /\ ret = Pending
    /\ pc = "call"

\* transformCommand / transformAndValidate -> mapIssuesToXsltSource(...)
MapIssuesToXsltSourceCall ==
    /\ pc = "call"
    /\ call.op = "mapIssuesToXsltSource"
    /\ ret' = [op |-> call.op,
               traced |-> MapIssuesToXsltSource(call.issues, call.traceEntries,
                                                call.outputContent),
               after |-> ArgumentsAfter(call.issues, call.traceEntries,
                                        call.outputContent)]
    /\ pc' = "done"
    /\ UNCHANGED call

NextMap == MapIssuesToXsltSourceCall

SpecMap == InitMap /\ [][NextMap]_vars

(***************************************************************************)
(* extractErrorElementNames on its own: messages of a few tokens in which  *)
(* several heuristics find names, the same name more than once             *)
(***************************************************************************)
MaxMessageTokens == 3

MessageTokens ==
    {Word("must"), Word("PartyName"), Word("Name"),
     QName("cbc", "ID"), QName("cac", "PartyName"),
     ElementQuoted("{}", "Note"), ElementQuoted("", "ID"),
     ExpectedWord, Braced("PartyName"), Braced("Name"),
     NotIncludeThe}

\* a key of the table with one name, one with three, no key, no rule id
ExtractRuleIds == {NoRuleId, "BR-02", "BR-06", "UBL-CR-001"}

InitExtract ==
    /\ \E message \in SeqsUpTo(MessageTokens, MaxMessageTokens), ruleId \in ExtractRuleIds :
          call = [op |-> "extractErrorElementNames", message |-> message,
                  ruleId |-> ruleId]
    /\ ret = Pending
    /\ pc = "call"

\* mapIssuesToXsltSource -> extractErrorElementNames(issue.message, issue.ruleId)
ExtractErrorElementNamesCall ==
    /\ pc = "call"
    /\ call.op = "extractErrorElementNames"
    /\ ret' = [op |-> call.op,
               names |-> ExtractErrorElementNames(call.message, call.ruleId)]
    /\ pc' = "done"
    /\ UNCHANGED call

NextExtract == ExtractErrorElementNamesCall

SpecExtract == InitExtract /\ [][NextExtract]_vars

(***************************************************************************)
(* Properties of extractErrorElementNames                                  *)
(***************************************************************************)
ExtractDone == pc = "done" /\ call.op = "extractErrorElementNames"

Range1(seq) == {seq[k] : k \in 1..Len(seq)}

\* what heuristic h finds in the message on its own, in priority order:
\* rule-id table, structural-error pattern, prefixed mentions,
\* expected-element pattern, path phrase
HeuristicNames(h, message, ruleId) ==
    CASE h = 1 -> Range1(IF ruleId # NoRuleId THEN RuleTargetElements(ruleId) ELSE <<>>)
      [] h = 2 -> Range1(XsdElementName(message))
      [] h = 3 -> Range1(PrefixedNames(message))
      [] h = 4 -> Range1(ExpectedNames(message, FALSE))
      [] h = 5 -> Range1(CrPathNames(message))

\* the first heuristic that contributes a name
RankOf(name, message, ruleId) ==
    CHOOSE h \in 1..5 :
        /\ name \in HeuristicNames(h, message, ruleId)
        /\ \A g \in 1..(h - 1) : name \notin HeuristicNames(g, message, ruleId)

MapDone == pc = "done" /\ call.op = "mapIssuesToXsltSource"

SetMin(S) == CHOOSE x \in S : \A y \in S : x <= y

LinkOf(t) == <<t.xsltSourceFile, t.xsltSourceLine, t.xsltElementName>>
NoLink == << <<>>, <<>>, <<>> >>
EntryLink(e) == << <<e.sourceFile>>, <<e.sourceLine>>, <<e.elementName>> >>

\* the extracted names that are no document root, in priority order
SpecificNames(issue) ==
    SelectSeq(ExtractErrorElementNames(issue.message, issue.ruleId),
              LAMBDA n : n \notin ROOT_ELEMENTS)

NameHasTrace(name, entries) ==
    \E k \in 1..Len(entries) : TraceMatchesElement(entries[k], name)
NoNameHasTrace(issue, entries) ==
    \A p \in 1..Len(SpecificNames(issue)) : ~NameHasTrace(SpecificNames(issue)[p], entries)

\* the lines of the clean output the mapper was given
GivenOutputLines == IF OutputFalsy(call.outputContent) THEN <<>> ELSE call.outputContent.text

OpeningLines(name, lines) == {i \in 1..Len(lines) : OpenRegexTest(name, lines[i])}

\* Among the entries at or before `line` those with the largest outputLine,
\* and of these the last of the list (the last of the stably sorted list).
NearestPrecedingLink(entries, line) ==
    LET cands == {k \in 1..Len(entries) : entries[k].outputLine <= line}
    IN  IF cands = {} THEN NoLink
        ELSE LET best == SetMax({entries[k].outputLine : k \in cands})
             IN  EntryLink(entries[SetMax({k \in cands : entries[k].outputLine = best})])

\* the issue reaches linkNearestTraceAt
NearestLinkAttempted(issue) ==
    IF SpecificNames(issue) = <<>> THEN issue.line > 2
    ELSE /\ NoNameHasTrace(issue, call.traceEntries)
         /\ \/ issue.line > 2
            \/ \E p \in 1..Len(SpecificNames(issue)) :
                  OpeningLines(SpecificNames(issue)[p], GivenOutputLines) # {}

\* C5: nearest-preceding correlation selects, among the entries with
\* outputLine <= target line, the one with the largest outputLine, the last
\* of them in the stably sorted list; no correlation when there is none.
C5_NearestPrecedingTrace ==
    MapDone =>
        \A n \in 1..Len(call.issues) :
            NearestLinkAttempted(call.issues[n]) =>
                LinkOf(ret.traced[n]) = NearestPrecedingLink(call.traceEntries,
                                                            ret.traced[n].line)

\* outputLines {3, 7, 12} in an order that is not sorted, target line 9:
\* the entry at 7
C5_Witness ==
    /\ MapDone
    /\ Len(call.traceEntries) = 3
    /\ call.traceEntries[1].outputLine = 12
    /\ {call.traceEntries[k].outputLine : k \in 1..3} = {3, 7, 12}
    /\ \E n \in 1..Len(call.issues) :
          /\ call.issues[n].line = 9
          /\ SpecificNames(call.issues[n]) = <<>>
          /\ ret.traced[n].xsltSourceLine \in {<<7>>, <<10>>}
          /\ ret.traced[n].line = 9

\* the entry C6 speaks of: for the first name that has a matching entry, the
\* matching entry with the smallest outputLine (the first of them in the list)
PriorityMatch(issue, entries) ==
    LET names == SpecificNames(issue)
        p == SetMin({q \in 1..Len(names) : NameHasTrace(names[q], entries)})
        hits == {k \in 1..Len(entries) : TraceMatchesElement(entries[k], names[p])}
        low == SetMin({entries[k].outputLine : k \in hits})
    IN  entries[SetMin({k \in hits : entries[k].outputLine = low})]

\* C6: for the first extracted name, in priority order, that some trace entry
\* matches, the issue takes line, file, source line and element of the
\* matching entry with the smallest outputLine.
C6_FirstMatchingNameWins ==
    MapDone =>
        \A n \in 1..Len(call.issues) :
            ~NoNameHasTrace(call.issues[n], call.traceEntries) =>
                LET m == PriorityMatch(call.issues[n], call.traceEntries)
                IN  /\ ret.traced[n].line = m.outputLine
                    /\ LinkOf(ret.traced[n]) = EntryLink(m)

\* two names with a trace each, the entry of the second name first in the
\* output: the entry of the first name is taken
C6_Witness ==
    /\ MapDone
    /\ \E n \in 1..Len(call.issues) :
          /\ SpecificNames(call.issues[n]) = <<"Name", "Party">>
          /\ NameHasTrace("Name", call.traceEntries)
          /\ NameHasTrace("Party", call.traceEntries)
          /\ ret.traced[n].line = 12
          /\ ret.traced[n].xsltElementName = << << <<"Name">> >> >>

\* C7 as claimed: with names extracted and no trace entry matching, the line
\* becomes the first line of the clean output that opens an element with one
\* of the names, and the correlation is the nearest preceding entry there
\* (read in the claim's favour: only when the output has such a line).
C7_LineFromOutputSearch ==
    MapDone =>
        \A n \in 1..Len(call.issues) :
            LET issue == call.issues[n]
                names == SpecificNames(issue)
                opening == UNION {OpeningLines(names[p], GivenOutputLines) :
                                    p \in 1..Len(names)}
            IN  (names # <<>> /\ NoNameHasTrace(issue, call.traceEntries)
                    /\ opening # {}) =>
                    /\ ret.traced[n].line = SetMin(opening)
                    /\ LinkOf(ret.traced[n])
                          = NearestPrecedingLink(call.traceEntries, SetMin(opening))

\* C7 as amended: when a non-empty output text was passed and opens one of
\* the names, the line becomes the first line that opens the first such name
\* in priority order, with the nearest preceding entry at that line;
\* otherwise the line is kept, with the nearest preceding entry at it only
\* when it is greater than 2.
C7_LineFromOutputSearchByPriority ==
    MapDone =>
        \A n \in 1..Len(call.issues) :
            LET issue == call.issues[n]
                names == SpecificNames(issue)
                present == {p \in 1..Len(names) :
                              OpeningLines(names[p], GivenOutputLines) # {}}
            IN  (names # <<>> /\ NoNameHasTrace(issue, call.traceEntries)) =>
                    IF present # {}
                      THEN LET l == SetMin(OpeningLines(names[SetMin(present)],
                                                         GivenOutputLines))
                           IN  /\ ret.traced[n].line = l
                               /\ LinkOf(ret.traced[n])
                                     = NearestPrecedingLink(call.traceEntries, l)
                      ELSE /\ ret.traced[n].line = issue.line
                           /\ LinkOf(ret.traced[n])
                                 = IF issue.line > 2
                                     THEN NearestPrecedingLink(call.traceEntries, issue.line)
                                     ELSE NoLink

\* Note (first name) opens on line 5, PartyName on line 2 of the output: the
\* issue moves from line 1 to line 5 and takes the entry at line 3
C7_Witness ==
    /\ MapDone
    /\ call.outputContent = Output(OutputWithNote)
    /\ \E n \in 1..Len(call.issues) :
          /\ SpecificNames(call.issues[n]) = <<"Note", "PartyName">>
          /\ call.issues[n].line = 1
          /\ ret.traced[n].line = 5
          /\ ret.traced[n].xsltSourceLine = <<4>>

\* no element name can be extracted from the issue
NoNameExtracted(issue) == ExtractErrorElementNames(issue.message, issue.ruleId) = <<>>

\* C16 as claimed: without an extracted name the issue keeps its line and,
\* whenever the line is not 1, is correlated with the nearest preceding
\* trace entry at or before that line.
C16_NoNameLinksNearestUnlessLineOne ==
    MapDone =>
        \A n \in 1..Len(call.issues) :
            NoNameExtracted(call.issues[n]) =>
                /\ ret.traced[n].line = call.issues[n].line
                /\ call.issues[n].line # 1 =>
                      LinkOf(ret.traced[n])
                         = NearestPrecedingLink(call.traceEntries, call.issues[n].line)

\* C16 as amended: ... whenever the line is greater than 2.
C16_NoNameLinksNearestBelowLineTwo ==
    MapDone =>
        \A n \in 1..Len(call.issues) :
            NoNameExtracted(call.issues[n]) =>
                /\ ret.traced[n].line = call.issues[n].line
                /\ call.issues[n].line > 2 =>
                      LinkOf(ret.traced[n])
                         = NearestPrecedingLink(call.traceEntries, call.issues[n].line)

\* an issue without names on line 9, entries on lines 7 and 12: it is
\* correlated with the entry on line 7
C16_Witness ==
    /\ MapDone
    /\ \E n \in 1..Len(call.issues) :
          /\ NoNameExtracted(call.issues[n])
          /\ call.issues[n].line = 9
          /\ {call.traceEntries[k].outputLine : k \in 1..Len(call.traceEntries)} = {7, 12}
          /\ ret.traced[n].line = 9
          /\ ret.traced[n].xsltSourceLine \in {<<7>>, <<10>>}

\* C17 as claimed: without an extracted name the issue keeps its line and
\* has no producing file, line or element.
C17_NoNameNoCorrelation ==
    MapDone =>
        \A n \in 1..Len(call.issues) :
            NoNameExtracted(call.issues[n]) =>
                /\ ret.traced[n].line = call.issues[n].line
                /\ LinkOf(ret.traced[n]) = NoLink

\* C17 as amended: the issue keeps its line, and it has no producing file,
\* line or element exactly when its line is 1 or 2 or no trace entry lies at
\* or before its line.
C17_NoNameNoCorrelationUpToLineTwo ==
    MapDone =>
        \A n \in 1..Len(call.issues) :
            NoNameExtracted(call.issues[n]) =>
                /\ ret.traced[n].line = call.issues[n].line
                /\ LinkOf(ret.traced[n]) = NoLink
                      <=> \/ call.issues[n].line <= 2
                          \/ \A k \in 1..Len(call.traceEntries) :
                                call.traceEntries[k].outputLine > call.issues[n].line

\* an issue without names on line 2 and a trace entry on line 1: no
\* correlation
C17_Witness ==
    /\ MapDone
    /\ \E n \in 1..Len(call.issues) :
          /\ NoNameExtracted(call.issues[n])
          /\ call.issues[n].line = 2
          /\ \E k \in 1..Len(call.traceEntries) : call.traceEntries[k].outputLine = 1
          /\ ret.traced[n].line = 2
          /\ LinkOf(ret.traced[n]) = NoLink

\* some extracted name opens an element of the output the mapper was given
SomeNameOpens(issue) ==
    \E p \in 1..Len(SpecificNames(issue)) :
        OpeningLines(SpecificNames(issue)[p], GivenOutputLines) # {}

\* C18 as claimed: an issue at line 1 (empty location, or first segment not
\* found) comes out with no producing file, line or element.
C18_FallbackLineNoCorrelation ==
    MapDone =>
        \A n \in 1..Len(call.issues) :
            call.issues[n].line = 1 => LinkOf(ret.traced[n]) = NoLink

\* C18 as amended: an issue at line 1 comes out at line 1 without
\* correlation when none of its names has a trace entry or opens an element
\* of the given output; when a name has a trace entry the issue takes line
\* and correlation of that entry.
C18_FallbackLineCorrelatedByNameOnly ==
    MapDone =>
        \A n \in 1..Len(call.issues) :
            LET issue == call.issues[n]
            IN  issue.line = 1 =>
                    /\ (NoNameHasTrace(issue, call.traceEntries) /\ ~SomeNameOpens(issue))
                          => /\ ret.traced[n].line = 1
                             /\ LinkOf(ret.traced[n]) = NoLink
                    /\ ~NoNameHasTrace(issue, call.traceEntries)
                          => /\ LinkOf(ret.traced[n]) # NoLink
                             /\ ret.traced[n].line
                                   = PriorityMatch(issue, call.traceEntries).outputLine

\* an issue at line 1 without names, and a trace entry on line 1 of the
\* output: no correlation
C18_Witness ==
    /\ MapDone
    /\ \E n \in 1..Len(call.issues) :
          /\ call.issues[n].line = 1
          /\ NoNameExtracted(call.issues[n])
          /\ \E k \in 1..Len(call.traceEntries) : call.traceEntries[k].outputLine = 1
          /\ ret.traced[n].line = 1
          /\ LinkOf(ret.traced[n]) = NoLink

\* C29: mapIssuesToXsltSource returns one TracedIssue per input issue, in
\* input order, with message, severity, ruleId, source and column unchanged;
\* the input issues and the input trace-entry list are as they were; with
\* no trace entries and no output text the issues are returned unchanged.
C29_OneTracedIssuePerIssue ==
    MapDone =>
        /\ Len(ret.traced) = Len(call.issues)
        /\ \A n \in 1..Len(call.issues) :
              /\ ret.traced[n].message = call.issues[n].message
              /\ ret.traced[n].severity = call.issues[n].severity
              /\ ret.traced[n].ruleId = call.issues[n].ruleId
              /\ ret.traced[n].source = call.issues[n].source
              /\ ret.traced[n].column = call.issues[n].column
        /\ ret.after.issues = call.issues
        /\ ret.after.traceEntries = call.traceEntries
        /\ (call.traceEntries = <<>> /\ OutputFalsy(call.outputContent))
              => \A n \in 1..Len(call.issues) : ret.traced[n] = Untraced(call.issues[n])

\* two issues that differ in every field, both moved to the line of a
\* trace entry, with trace entries given out of order
C29_Witness ==
    /\ MapDone
    /\ Len(call.issues) = 2
    /\ call.issues[1].source # call.issues[2].source
    /\ call.issues[1].column # call.issues[2].column
    /\ ret.traced[1].line # call.issues[1].line
    /\ ret.traced[2].line # call.issues[2].line
    /\ Len(call.traceEntries) = 3
    /\ call.traceEntries[1].outputLine > call.traceEntries[2].outputLine

\* C30: every TraceEntry returned by parseTracedOutput refers to an existing
\* line of the clean output it is returned with: 1 <= outputLine <= number
\* of lines of the clean output, for every raw text.
C30_OutputLineWithinCleanOutput ==
    TraceDone =>
        \A n \in 1..Len(ret.traceEntries) :
            /\ 1 <= ret.traceEntries[n].outputLine
            /\ ret.traceEntries[n].outputLine <= Len(ret.cleanOutput)

(***************************************************************************)
(* Program instrumentor (xsltTracer.ts, instrumentXslt)                    *)
(***************************************************************************)
\* `${n}` on the line numbers of the model
ToDigits(n) ==
    CASE n = 0 -> "0" [] n = 1 -> "1" [] n = 2 -> "2" [] n = 3 -> "3"
      [] n = 4 -> "4" [] n = 5 -> "5" [] n = 6 -> "6" [] n = 7 -> "7"
      [] n = 8 -> "8" [] n = 9 -> "9" [] n = 10 -> "10" [] n = 11 -> "11"
      [] n = 12 -> "12"

Comment == Tok("comment", "", "", <<>>)
\* <xsl:comment>XSLT-TRACE|f1|f2|...</xsl:comment>
XslComment(fields) == Tok("xslcomment", "xsl", "comment", fields)

\* /<xsl:template\b/
TemplateOpenTest(line) ==
    \E t \in 1..Len(line) :
        line[t].k \in {"open", "self"} /\ line[t].pre = "xsl" /\ line[t].name = "template"

\* /<\/xsl:template\s*>/
TemplateCloseTest(line) ==
    \E t \in 1..Len(line) :
        line[t].k = "close" /\ line[t].pre = "xsl" /\ line[t].name = "template"

\* the leading whitespace of a line
RECURSIVE Indent(_)
Indent(line) ==
    IF line # <<>> /\ Head(line).k = "ws" THEN <<Head(line)>> \o Indent(Tail(line))
    ELSE <<>>

\* LITERAL_ELEMENT_REGEX: after the indentation an opening tag that is no
\* xsl: instruction, closing tag, comment or processing instruction
LiteralElementMatch(line) ==
    LET indent == Indent(line)
        rest == SubSeq(line, Len(indent) + 1, Len(line))
    IN  IF rest # <<>> /\ Head(rest).k \in {"open", "self"} /\ Head(rest).pre # "xsl"
          THEN [matched |-> TRUE, indent |-> indent,
                elementName |-> IF Head(rest).pre = "" THEN <<Head(rest).name>>
                                ELSE <<Head(rest).pre, Head(rest).name>>]
          ELSE [matched |-> FALSE, indent |-> <<>>, elementName |-> <<>>]

TraceCommentLine(indent, xsltPath, lineNumber, elementName) ==
    Append(indent, XslComment(xsltPath \o << <<ToDigits(lineNumber)>>, elementName >>))

\* the for loop of instrumentXslt from line i (0-indexed)
RECURSIVE InstrumentLines(_, _, _, _, _, _)
InstrumentLines(xsltPath, lines, i, inTemplate, templateDepth, result) ==
    IF ~(i < Len(lines)) THEN result
    ELSE LET line == Line(lines, i)
             opened == TemplateOpenTest(line)
             in1 == IF opened THEN TRUE ELSE inTemplate
             depth1 == IF opened THEN templateDepth + 1 ELSE templateDepth
             closed == TemplateCloseTest(line)
             depth2 == IF closed THEN depth1 - 1 ELSE depth1
             in2 == IF closed /\ depth2 <= 0 THEN FALSE ELSE in1
             depth3 == IF closed /\ depth2 <= 0 THEN 0 ELSE depth2
             m == LiteralElementMatch(line)
             pushed == IF in2 /\ m.matched
                         THEN Append(result, TraceCommentLine(m.indent, xsltPath, i + 1,
                                                              m.elementName))
                         ELSE result
         IN  InstrumentLines(xsltPath, lines, i + 1, in2, depth3, Append(pushed, line))

\* content is the text of the file at xsltPath
InstrumentXslt(xsltPath, content) ==
    JoinLines(InstrumentLines(xsltPath, SplitLines(content), 0, FALSE, 0, <<>>))

(***************************************************************************)
(* Inputs of the instrumentor: stylesheets of a few kinds of lines         *)
(***************************************************************************)
MaxXsltLines == 4

XsltLineForms ==
    {<<OpenTag("xsl", "template")>>,
     <<CloseTag("xsl", "template")>>,
     \* an empty template, <xsl:template match="text()"/>
     <<SelfTag("xsl", "template")>>,
     <<Ws, OpenTag("cbc", "ID")>>,
     <<SelfTag("", "Invoice")>>,
     <<Ws, SelfTag("xsl", "value-of")>>,
     <<Ws, CloseTag("cbc", "ID")>>,
     <<Comment>>,
     \* <xsl:if test="..."><cbc:Note/>
     <<OpenTag("xsl", "if"), SelfTag("cbc", "Note")>>}

PipePath == << <<"/t/a">>, <<"b.xsl">> >>

InitInstrument ==
    /\ \E path \in {TraceFile, PipePath},
          content \in SeqsUpTo(XsltLineForms, MaxXsltLines) \ {<<>>} :
          call = [op |-> "instrumentXslt", xsltPath |-> path, content |-> content]
    /\ ret = Pending
    /\ pc = "call"

\* runInstrumentedTransform -> instrumentXslt(xsltPath)
InstrumentXsltCall ==
    /\ pc = "call"
    /\ call.op = "instrumentXslt"
    /\ ret' = [op |-> call.op, instrumented |-> InstrumentXslt(call.xsltPath, call.content)]
    /\ pc' = "done"
    /\ UNCHANGED call

NextInstrument == InstrumentXsltCall

SpecInstrument == InitInstrument /\ [][NextInstrument]_vars

(***************************************************************************)
(* Properties of the instrumentor                                          *)
(***************************************************************************)
InstrumentDone == pc = "done" /\ call.op = "instrumentXslt"

IsTemplateTag(tok) == tok.pre = "xsl" /\ tok.name = "template"

\* the nesting depth of template blocks after the tokens toks, tag by tag
RECURSIVE TemplateDepth(_, _)
TemplateDepth(toks, depth) ==
    IF toks = <<>> THEN depth
    ELSE LET tok == Head(toks)
         IN  IF IsTemplateTag(tok) /\ tok.k = "open"
               THEN TemplateDepth(Tail(toks), depth + 1)
             ELSE IF IsTemplateTag(tok) /\ tok.k = "close" /\ depth > 0
               THEN TemplateDepth(Tail(toks), depth - 1)
             ELSE TemplateDepth(Tail(toks), depth)

\* line i (1-indexed) lies inside a template block: a block is open before
\* it and the line itself neither opens nor closes one
InsideTemplateBlock(lines, i) ==
    /\ TemplateDepth(Flatten(SubSeq(lines, 1, i - 1)), 0) > 0
    /\ \A t \in 1..Len(lines[i]) : ~IsTemplateTag(lines[i][t])

\* the first tag of the line, after its indentation, opens a literal element
OpensLiteralElement(line) == LiteralElementMatch(line).matched

IsMarkerLine(line) ==
    /\ line # <<>>
    /\ line[Len(line)].k = "xslcomment"
    /\ \A t \in 1..(Len(line) - 1) : line[t].k = "ws"

\* out is lines[i..] with one marker line before each line that qualifies
RECURSIVE MarkersExactlyWhereQualified(_, _, _)
MarkersExactlyWhereQualified(out, lines, i) ==
    IF i > Len(lines) THEN out = <<>>
    ELSE IF InsideTemplateBlock(lines, i) /\ OpensLiteralElement(lines[i])
      THEN /\ Len(out) >= 2
           /\ IsMarkerLine(out[1])
           /\ out[2] = lines[i]
           /\ MarkersExactlyWhereQualified(SubSeq(out, 3, Len(out)), lines, i + 1)
      ELSE /\ Len(out) >= 1
           /\ out[1] = lines[i]
           /\ MarkersExactlyWhereQualified(SubSeq(out, 2, Len(out)), lines, i + 1)

\* C10: the output is the original lines, unmodified and in order, plus
\* exactly one marker line immediately before each line that lies inside a
\* template block and opens a literal element; without the marker lines it
\* is the original again.
C10_OriginalLinesPlusMarkers ==
    InstrumentDone =>
        /\ SelectSeq(ret.instrumented, LAMBDA l : ~IsMarkerLine(l)) = call.content
        /\ MarkersExactlyWhereQualified(ret.instrumented, call.content, 1)

\* the lines of the original (1-indexed) that have a marker line right
\* before them in the output out, whose next original line is number i
RECURSIVE MarkedLines(_, _, _)
MarkedLines(out, i, marked) ==
    IF out = <<>> THEN {}
    ELSE IF IsMarkerLine(Head(out)) THEN MarkedLines(Tail(out), i, TRUE)
    ELSE (IF marked THEN {i} ELSE {}) \cup MarkedLines(Tail(out), i + 1, FALSE)

\* the first tag of the line, after its indentation
FirstTagKind(line) ==
    LET rest == SubSeq(line, Len(Indent(line)) + 1, Len(line))
    IN  IF rest = <<>> THEN "none"
        ELSE IF Head(rest).k \in {"open", "self"} /\ Head(rest).pre = "xsl" THEN "directive"
        ELSE Head(rest).k

\* C11: no marker before a line outside every template block, before a line
\* that opens or closes a template block, or before a line whose first tag is
\* a directive, a closing tag or a comment; inside nested template blocks
\* literal lines are marked until the nesting depth is back at zero.
C11_NoMarkerOutsideTemplateBlocks ==
    InstrumentDone =>
        LET lines == call.content
            marked == MarkedLines(ret.instrumented, 1, FALSE)
        IN  /\ \A i \in marked :
                  /\ InsideTemplateBlock(lines, i)
                  /\ FirstTagKind(lines[i]) \notin {"directive", "close", "comment", "none"}
            /\ \A i \in 1..Len(lines) :
                  (InsideTemplateBlock(lines, i) /\ OpensLiteralElement(lines[i]))
                      => i \in marked

(***************************************************************************)
(* An instrumented run (xsltTracer.ts, runInstrumentedTransform): the      *)
(* program is instrumented, an external processor executes it, and the     *)
(* raw output is split.  The processor is outside the repository: its      *)
(* output is the literal lines of the instrumented program, every          *)
(* xsl:comment serialised as a comment, on a line of its own or in front   *)
(* of the element that follows it; a processor that fails may leave only   *)
(* the beginning of that output.                                           *)
(***************************************************************************)
MaxRunLines == 3

\* <xsl:comment>text</xsl:comment> is written as <!--text-->
SerialiseComment(line) ==
    [t \in 1..Len(line) |-> IF line[t].k = "xslcomment" THEN Marker(line[t].f) ELSE line[t]]

IsLiteralLine(line) ==
    /\ line # <<>>
    /\ \A t \in 1..Len(line) : line[t].k \in {"open", "close", "self", "ws", "text"}
                                /\ line[t].pre # "xsl"

RECURSIVE ProcessorOutput(_, _)
ProcessorOutput(instrumented, inline) ==
    IF instrumented = <<>> THEN <<>>
    ELSE LET line == Head(instrumented)
             rest == Tail(instrumented)
         IN  IF IsMarkerLine(line)
               THEN IF inline /\ rest # <<>> /\ IsLiteralLine(Head(rest))
                      THEN <<SerialiseComment(line) \o Head(rest)>>
                              \o ProcessorOutput(Tail(rest), inline)
                      ELSE <<SerialiseComment(line)>> \o ProcessorOutput(rest, inline)
             ELSE IF IsLiteralLine(line)
               THEN <<line>> \o ProcessorOutput(rest, inline)
             ELSE ProcessorOutput(rest, inline)

InitRun ==
    /\ \E path \in {TraceFile, PipePath},
          content \in SeqsUpTo(XsltLineForms, MaxRunLines) \ {<<>>} :
          call = [op |-> "runInstrumentedTransform", xsltPath |-> path, content |-> content]
    /\ ret = Pending
    /\ pc = "call"

\* const instrumented = instrumentXslt(xsltPath)
RunInstrument ==
    /\ pc = "call"
    /\ call.op = "runInstrumentedTransform"
    /\ ret' = [op |-> call.op, instrumented |-> InstrumentXslt(call.xsltPath, call.content)]
    /\ pc' = "instrumented"
    /\ UNCHANGED call

\* rawOutput = result.stdout, error.stdout or the output of Saxon
RunTransform ==
    /\ pc = "instrumented"
    /\ call.op = "runInstrumentedTransform"
    /\ \E inline \in BOOLEAN :
          LET full == ProcessorOutput(ret.instrumented, inline)
          IN  \E n \in 0..Len(full) :
                 ret' = [rawOutput |-> SubSeq(full, 1, n)] @@ ret
    /\ pc' = "transformed"
    /\ UNCHANGED call

\* the processor fails without output, or there is no processor: throw
RunTransformThrows ==
    /\ pc = "instrumented"
    /\ call.op = "runInstrumentedTransform"
    /\ ret' = [thrown |-> TRUE] @@ ret
    /\ pc' = "failed"
    /\ UNCHANGED call

\* return parseTracedOutput(rawOutput)
RunParse ==
    /\ pc = "transformed"
    /\ call.op = "runInstrumentedTransform"
    /\ ret' = ParseTracedOutput(ret.rawOutput) @@ ret
    /\ pc' = "done"
    /\ UNCHANGED call

NextRun == RunInstrument \/ RunTransform \/ RunTransformThrows \/ RunParse

SpecRun == InitRun /\ [][NextRun]_vars

(***************************************************************************)
(* Properties of an instrumented run                                       *)
(***************************************************************************)
RunDone == pc = "done" /\ call.op = "runInstrumentedTransform"

\* file, line and element of the markers emitted for the program, in order
RECURSIVE EmittedMarkers(_, _, _, _)
EmittedMarkers(path, lines, marked, i) ==
    IF i > Len(lines) THEN <<>>
    ELSE (IF i \in marked
            THEN <<[sourceFile |-> path, sourceLine |-> i,
                    elementName |-> <<LiteralElementMatch(lines[i]).elementName>>]>>
            ELSE <<>>)
            \o EmittedMarkers(path, lines, marked, i + 1)

SerialisedMarkerCount(raw) ==
    Len(SelectSeq(Flatten(raw), LAMBDA tok : tok.k = "mk"))

\* C12: every marker emitted for element e on line n of the program at path
\* p and serialised in the raw output is extracted as a trace entry with
\* sourceFile p, sourceLine n and elementName e.
C12_MarkerRoundTrip ==
    RunDone =>
        LET emitted == EmittedMarkers(call.xsltPath, call.content,
                                      MarkedLines(ret.instrumented, 1, FALSE), 1)
            n == SerialisedMarkerCount(ret.rawOutput)
        IN  /\ Len(ret.traceEntries) = n
            /\ \A k \in 1..n :
                  /\ ret.traceEntries[k].sourceFile = emitted[k].sourceFile
                  /\ ret.traceEntries[k].sourceLine = emitted[k].sourceLine
                  /\ ret.traceEntries[k].elementName = emitted[k].elementName

(***************************************************************************)
(* Report parser (svrlParser.ts, parseSvrlWithLines)                       *)
(*                                                                         *)
(* A report is a sequence of tags: <svrl:kind id flag location>, the same  *)
(* self-closed, </svrl:kind>, and <svrl:text>content</svrl:text>.  An      *)
(* attribute is a sequence of no or one value; the content of a text is a  *)
(* sequence of message tokens, inline markup among them.                   *)
(***************************************************************************)
SvrlTok(k, kind, id, flag, location, content) ==
    [k |-> k, kind |-> kind, id |-> id, flag |-> flag, location |-> location,
     content |-> content]
SvrlOpen(kind, id, flag, location) == SvrlTok("open", kind, id, flag, location, <<>>)
SvrlSelf(kind, id, flag, location) == SvrlTok("self", kind, id, flag, location, <<>>)
SvrlClose(kind) == SvrlTok("close", kind, <<>>, <<>>, <<>>, <<>>)
SvrlText(content) == SvrlTok("text", "text", <<>>, <<>>, <<>>, content)

\* inline markup inside a text, <svrl:emph> and the like
InlineTag == MsgTok("tag", "", "")
\* the `[id] ` in front of a message
RulePrefix(id) == MsgTok("ruleprefix", "", id)

SetMinimum(S) == CHOOSE x \in S : \A y \in S : x <= y

\* flag.toLowerCase() on the flag tokens of the model
ToLowerCase(flag) ==
    CASE flag = "WARNING" -> "warning"
      [] flag = "Info" -> "info"
      [] flag = "Fatal" -> "fatal"
      [] OTHER -> flag

\* a severity mapping whose default is Warning
MapFlagToSeverityLenient(flag) ==
    LET lower == ToLowerCase(flag)
    IN  CASE lower \in {"fatal", "error"} -> "Error"
          [] lower = "warning" -> "Warning"
          [] lower \in {"information", "info"} -> "Information"
          [] OTHER -> "Warning"

MapFlagToSeverity(flag) ==
    LET lower == ToLowerCase(flag)
    IN  CASE lower \in {"fatal", "error"} -> "Error"
          [] lower = "warning" -> "Warning"
          [] lower \in {"information", "info"} -> "Information"
          [] OTHER -> "Error"

\* block.match(/\battr="([^"]*?)"/): the first tag of the block that has it
FirstAttribute(block, attr) ==
    LET has == {t \in 1..Len(block) : block[t][attr] # <<>>}
    IN  IF has = {} THEN <<>> ELSE block[SetMinimum(has)][attr]

\* textMatch[1].replace(/<[^>]+>/g, '').trim().replace(/\s+/g, ' ')
NormaliseText(content) == SelectSeq(content, LAMBDA tok : tok.k # "tag")

NullAssertion == [null |-> TRUE, id |-> "", flag |-> "", location |-> <<>>, text |-> <<>>]

ParseAssertionBlock(block) ==
    LET idMatch == FirstAttribute(block, "id")
        flagMatch == FirstAttribute(block, "flag")
        locationMatch == FirstAttribute(block, "location")
        texts == {t \in 1..Len(block) : block[t].k = "text"}
    IN  IF texts = {} THEN NullAssertion
        ELSE [null |-> FALSE,
              id |-> IF idMatch # <<>> THEN idMatch[1] ELSE "",
              flag |-> IF flagMatch # <<>> THEN flagMatch[1] ELSE "error",
              location |-> IF locationMatch # <<>> THEN locationMatch[1] ELSE <<>>,
              text |-> NormaliseText(block[SetMinimum(texts)].content)]

AssertionToIssue(assertion, sourceLines, source) ==
    [line |-> ResolveLineFromXPath(assertion.location, sourceLines).line,
     column |-> 0,
     message |-> (IF assertion.id # "" THEN <<RulePrefix(assertion.id)>> ELSE <<>>)
                    \o assertion.text,
     severity |-> MapFlagToSeverity(assertion.flag),
     ruleId |-> IF assertion.id # "" THEN assertion.id ELSE NoRuleId,
     source |-> source]

\* pattern.exec(svrlXml) from tag `from` on: <svrl:kind ... up to the first
\* </svrl:kind> after it; no match is start 0
NextBlock(svrlXml, kind, from) ==
    LET starts == {t \in from..Len(svrlXml) :
                      /\ svrlXml[t].k \in {"open", "self"}
                      /\ svrlXml[t].kind = kind
                      /\ \E c \in (t + 1)..Len(svrlXml) :
                            svrlXml[c].k = "close" /\ svrlXml[c].kind = kind}
    IN  IF starts = {} THEN [start |-> 0, end |-> 0]
        ELSE LET t == SetMinimum(starts)
             IN  [start |-> t,
                  end |-> SetMinimum({c \in (t + 1)..Len(svrlXml) :
                              svrlXml[c].k = "close" /\ svrlXml[c].kind = kind})]

\* one while loop of parseSvrlWithLines; found records, for every issue,
\* the block it was made from
RECURSIVE BlockIssues(_, _, _, _, _, _)
BlockIssues(svrlXml, kind, from, sourceLines, source, acc) ==
    LET m == NextBlock(svrlXml, kind, from)
    IN  IF m.start = 0 THEN acc
        ELSE LET assertion == ParseAssertionBlock(SubSeq(svrlXml, m.start, m.end))
                 next == IF assertion.null THEN acc
                         ELSE [issues |-> Append(acc.issues,
                                     AssertionToIssue(assertion, sourceLines, source)),
                               found |-> Append(acc.found,
                                     [kind |-> kind, start |-> m.start, end |-> m.end])]
             IN  BlockIssues(svrlXml, kind, m.end + 1, sourceLines, source, next)

\* a parser that takes the blocks of both kinds in one pass
RECURSIVE ParseSvrlInDocumentOrder(_, _, _, _, _)
ParseSvrlInDocumentOrder(svrlXml, from, sourceLines, source, acc) ==
    LET fa == NextBlock(svrlXml, "failed-assert", from)
        sr == NextBlock(svrlXml, "successful-report", from)
    IN  IF fa.start = 0 /\ sr.start = 0 THEN acc
        ELSE LET kind == IF sr.start = 0 \/ (fa.start # 0 /\ fa.start < sr.start)
                           THEN "failed-assert" ELSE "successful-report"
                 m == IF kind = "failed-assert" THEN fa ELSE sr
                 one == BlockIssues(SubSeq(svrlXml, 1, m.end), kind, m.start,
                                    sourceLines, source, acc)
             IN  ParseSvrlInDocumentOrder(svrlXml, m.end + 1, sourceLines, source, one)

ParseSvrlWithLinesOnePass(svrlXml, sourceLines, source) ==
    ParseSvrlInDocumentOrder(svrlXml, 1, sourceLines, source,
                             [issues |-> <<>>, found |-> <<>>])

ParseSvrlWithLines(svrlXml, sourceLines, source) ==
    LET failed == BlockIssues(svrlXml, "failed-assert", 1, sourceLines, source,
                              [issues |-> <<>>, found |-> <<>>])
    IN  BlockIssues(svrlXml, "successful-report", 1, sourceLines, source, failed)

\* parseSvrlOutputFromContent
ParseSvrlOutputFromContent(svrlXml, sourceContent, source) ==
    ParseSvrlWithLines(svrlXml, SplitLines(sourceContent), source)

(***************************************************************************)
(* Inputs of the report parser: reports of a few blocks over a document    *)
(***************************************************************************)
MaxBlocks == 3

\* form: "closed" <svrl:kind ...>...</svrl:kind>, "self" <svrl:kind .../>;
\* text: no or one svrl:text element
Block(kind, form, id, flag, location, text) ==
    [kind |-> kind, form |-> form, id |-> id, flag |-> flag, location |-> location,
     text |-> text]

RenderBlock(b) ==
    IF b.form = "self" THEN <<SvrlSelf(b.kind, b.id, b.flag, b.location)>>
    ELSE <<SvrlOpen(b.kind, b.id, b.flag, b.location)>>
            \o (IF b.text # <<>> THEN <<SvrlText(b.text[1])>> ELSE <<>>)
            \o <<SvrlClose(b.kind)>>

RECURSIVE RenderReport(_)
RenderReport(blocks) ==
    IF blocks = <<>> THEN <<>> ELSE RenderBlock(Head(blocks)) \o RenderReport(Tail(blocks))

\* the child of the second container, line 6 of the document
LocationChild == DisambiguationPath
LocationMissing == <<Step("", "Missing", "1")>>

SvrlFlags ==
    {<<>>, <<"fatal">>, <<"error">>, <<"warning">>, <<"information">>, <<"info">>,
     <<"WARNING">>, <<"Info">>, <<"note">>, <<"">>}

SvrlBlocks ==
    {Block("failed-assert", "closed", <<"BR-02">>, f, <<LocationChild>>, <<MustExist>>) :
        f \in SvrlFlags}
    \cup
    {\* no id, no flag, no location; markup inside the text
     Block("failed-assert", "closed", <<>>, <<>>, <<>>,
           << <<Word("must"), InlineTag, Word("exist")>> >>),
     Block("successful-report", "closed", <<>>, <<"warning">>, <<LocationMissing>>,
           << <<QName("cbc", "Name")>> \o MustExist >>),
     Block("successful-report", "closed", <<"BR-CO-15">>, <<>>, <<LocationChild>>,
           <<MustExist>>),
     \* without svrl:text
     Block("failed-assert", "closed", <<"BR-05">>, <<"fatal">>, <<LocationChild>>, <<>>),
     Block("successful-report", "closed", <<>>, <<>>, <<>>, <<>>),
     \* self-closed, hence without svrl:text
     Block("failed-assert", "self", <<"BR-05">>, <<"warning">>, <<LocationChild>>, <<>>),
     \* an empty svrl:text element
     Block("failed-assert", "closed", <<>>, <<>>, <<>>, << <<>> >>),
     \* a tag of another kind
     Block("fired-rule", "self", <<>>, <<>>, <<>>, <<>>)}

SvrlDocuments == {DisambiguationDocument, <<EmptyLine>>}

InitSvrl ==
    /\ \E blocks \in SeqsUpTo(SvrlBlocks, MaxBlocks), doc \in SvrlDocuments,
          source \in {"en16931", "peppol"} :
          call = [op |-> "parseSvrlOutputFromContent", blocks |-> blocks,
                  svrlXml |-> RenderReport(blocks), sourceContent |-> doc,
                  source |-> source]
    /\ ret = Pending
    /\ pc = "call"

ParseSvrlOutputFromContentCall ==
    /\ pc = "call"
    /\ call.op = "parseSvrlOutputFromContent"
    /\ ret' = [op |-> call.op]
                @@ ParseSvrlOutputFromContent(call.svrlXml, call.sourceContent, call.source)
    /\ pc' = "done"
    /\ UNCHANGED call

NextSvrl == ParseSvrlOutputFromContentCall

SpecSvrl == InitSvrl /\ [][NextSvrl]_vars

(***************************************************************************)
(* Properties of the report parser                                         *)
(***************************************************************************)
SvrlDone == pc = "done" /\ call.op = "parseSvrlOutputFromContent"

IsAssertionBlock(b) == b.kind \in {"failed-assert", "successful-report"}

\* the block has a text element
HasText(b) == IsAssertionBlock(b) /\ b.text # <<>>

\* line of a location in the documents of the model
LocationLine(location, doc) ==
    IF location = <<LocationChild>> /\ doc = DisambiguationDocument THEN 6 ELSE 1

\* message, rule and line of the issue of block b, by the block's own
\* attributes
BlockIssue(b, doc) ==
    [line |-> LocationLine(b.location, doc),
     message |-> (IF b.id # <<>> THEN <<RulePrefix(b.id[1])>> ELSE <<>>)
                    \o SelectSeq(b.text[1], LAMBDA tok : tok # InlineTag),
     ruleId |-> IF b.id # <<>> THEN b.id[1] ELSE NoRuleId]

IssueCore(issue) ==
    [line |-> issue.line, message |-> issue.message, ruleId |-> issue.ruleId]

Occurrences(seq, v) == Cardinality({k \in 1..Len(seq) : seq[k] = v})

BlockIssuesOf(blocks, doc) ==
    [k \in 1..Len(SelectSeq(blocks, HasText)) |->
        BlockIssue(SelectSeq(blocks, HasText)[k], doc)]

IssueCores(issues) == [k \in 1..Len(issues) |-> IssueCore(issues[k])]

\* C13: exactly one issue for every failed-assert or successful-report block
\* that has a text, without ruleId when the block has no id and at line 1
\* when it has no location; no issue for a block without text, and the
\* blocks after it are still parsed.
C13_OneIssuePerBlockWithText ==
    SvrlDone =>
        LET expected == BlockIssuesOf(call.blocks, call.sourceContent)
            got == IssueCores(ret.issues)
        IN  /\ Len(got) = Len(expected)
            /\ \A k \in 1..Len(expected) :
                  Occurrences(got, expected[k]) = Occurrences(expected, expected[k])

\* every block of the report is written with its closing tag
AllClosed(blocks) == \A k \in 1..Len(blocks) : blocks[k].form = "closed"

OfKind(blocks, kind) == SelectSeq(blocks, LAMBDA b : b.kind = kind /\ HasText(b))

\* C14: the issues of failed-assert blocks come before the issues of
\* successful-report blocks, and the issues of one kind follow the document
\* order of their blocks.
C14_FailedAssertsBeforeReports ==
    SvrlDone =>
        /\ \A i, j \in 1..Len(ret.found) :
              i < j =>
                  /\ ret.found[i].kind = "successful-report"
                        => ret.found[j].kind = "successful-report"
                  /\ ret.found[i].kind = ret.found[j].kind
                        => ret.found[i].start < ret.found[j].start
        /\ AllClosed(call.blocks) =>
              IssueCores(ret.issues)
                 = BlockIssuesOf(OfKind(call.blocks, "failed-assert")
                                    \o OfKind(call.blocks, "successful-report"),
                                 call.sourceContent)

\* a report before two failed asserts: the issue of the report comes last
C14_Witness ==
    /\ SvrlDone
    /\ Len(call.blocks) = 3
    /\ call.blocks[1].kind = "successful-report" /\ HasText(call.blocks[1])
    /\ call.blocks[2].kind = "failed-assert" /\ HasText(call.blocks[2])
    /\ call.blocks[3].kind = "failed-assert" /\ HasText(call.blocks[3])
    /\ call.blocks[2] # call.blocks[3]
    /\ AllClosed(call.blocks)
    /\ Len(ret.issues) = 3
    /\ IssueCore(ret.issues[3]) = BlockIssue(call.blocks[1], call.sourceContent)
    /\ IssueCore(ret.issues[1]) = BlockIssue(call.blocks[2], call.sourceContent)

\* the flag attribute of the block that issue k was made from: the first
\* flag in the text of the block
FlagOfIssue(k) ==
    FirstAttribute(SubSeq(call.svrlXml, ret.found[k].start, ret.found[k].end), "flag")

\* C15 as claimed: fatal and error give Error, warning gives Warning,
\* information and info give Information, every other token and an absent
\* flag give Error.
C15_SeverityByFlagToken ==
    SvrlDone =>
        \A k \in 1..Len(ret.issues) :
            LET flag == FlagOfIssue(k)
            IN  ret.issues[k].severity =
                    (IF flag = <<>> THEN "Error"
                     ELSE IF flag[1] \in {"fatal", "error"} THEN "Error"
                     ELSE IF flag[1] = "warning" THEN "Warning"
                     ELSE IF flag[1] \in {"information", "info"} THEN "Information"
                     ELSE "Error")

\* C15 as amended: the token is compared without regard to case.
C15_SeverityByFlagTokenIgnoringCase ==
    SvrlDone =>
        \A k \in 1..Len(ret.issues) :
            LET flag == FlagOfIssue(k)
            IN  ret.issues[k].severity =
                    (IF flag = <<>> THEN "Error"
                     ELSE IF flag[1] \in {"fatal", "Fatal", "error"} THEN "Error"
                     ELSE IF flag[1] \in {"warning", "WARNING"} THEN "Warning"
                     ELSE IF flag[1] \in {"information", "info", "Info"} THEN "Information"
                     ELSE "Error")

\* a token that is none of the five, an absent flag and an upper-case
\* WARNING in one report
C15_Witness ==
    /\ SvrlDone
    /\ Len(ret.issues) = 3
    /\ {FlagOfIssue(k) : k \in 1..3} = {<<"note">>, <<>>, <<"WARNING">>}
    /\ {ret.issues[k].severity : k \in 1..3} = {"Error", "Warning"}

(***************************************************************************)
(* The pipeline (transformAndValidate.ts): transformation, with or without *)
(* tracing, validation of the output against the business rules, mapping   *)
(* of the issues to the program.  The validator is outside the repository: *)
(* its report is any report of the model.                                  *)
(***************************************************************************)
MaxPipelineLines == 3
MaxPipelineBlocks == 1

PipelineLineForms ==
    {<<OpenTag("xsl", "template")>>,
     <<CloseTag("xsl", "template")>>,
     <<SelfTag("xsl", "template")>>,
     <<Ws, OpenTag("cbc", "ID")>>,
     <<SelfTag("", "Invoice")>>}

PipelineBlocks ==
    {\* BR-02 targets ID
     Block("failed-assert", "closed", <<"BR-02">>, <<"fatal">>,
           << <<Step("", "Invoice", "1")>> >>, <<MustExist>>),
     Block("failed-assert", "closed", <<>>, <<>>, << <<Step("*", "ID", "1")>> >>,
           << <<QName("cbc", "ID")>> \o MustExist >>),
     Block("failed-assert", "closed", <<>>, <<"warning">>, << <<Step("", "ID", "0")>> >>,
           <<MustExist>>),
     Block("successful-report", "closed", <<"BR-CO-15">>, <<"info">>, <<>>, <<MustExist>>)}

InitPipeline ==
    /\ \E path \in {TraceFile, PipePath}, tracing \in BOOLEAN,
          content \in SeqsUpTo(PipelineLineForms, MaxPipelineLines) \ {<<>>} :
          call = [op |-> "transformAndValidate", xsltStylesheet |-> path,
                  content |-> content, enableTracing |-> tracing]
    /\ ret = Pending
    /\ pc = "call"

\* Step 1: runInstrumentedTransform, or the plain transformation
PipelineTransform ==
    /\ pc = "call"
    /\ call.op = "transformAndValidate"
    /\ \E inline \in BOOLEAN :
          LET program == IF call.enableTracing
                           THEN InstrumentXslt(call.xsltStylesheet, call.content)
                           ELSE call.content
              full == ProcessorOutput(program, inline)
          IN  \E n \in 0..Len(full) :
                 LET traced == ParseTracedOutput(SubSeq(full, 1, n))
                 IN  ret' = [op |-> call.op,
                             output |-> IF call.enableTracing THEN traced.cleanOutput
                                        ELSE SubSeq(full, 1, n),
                             traceEntries |-> IF call.enableTracing
                                                THEN traced.traceEntries ELSE <<>>,
                             isUbl |-> FALSE, allIssues |-> <<>>, tracedIssues |-> <<>>]
    /\ pc' = "transformed"
    /\ UNCHANGED call

\* the transformation fails without output
PipelineTransformThrows ==
    /\ pc = "call"
    /\ call.op = "transformAndValidate"
    /\ ret' = [op |-> call.op, thrown |-> TRUE]
    /\ pc' = "failed"
    /\ UNCHANGED call

\* Step 2: the output is no UBL document, return without validation
PipelineNotUbl ==
    /\ pc = "transformed"
    /\ call.op = "transformAndValidate"
    /\ pc' = "done"
    /\ UNCHANGED <<call, ret>>

\* Step 3: validateSchematronFromContent -> parseSvrlOutputFromContent
PipelineValidate ==
    /\ pc = "transformed"
    /\ call.op = "transformAndValidate"
    /\ \E blocks \in SeqsUpTo(PipelineBlocks, MaxPipelineBlocks),
          source \in {"en16931", "peppol"} :
          ret' = [ret EXCEPT
                    !.isUbl = TRUE,
                    !.allIssues = ParseSvrlOutputFromContent(RenderReport(blocks),
                                                             ret.output, source).issues]
    /\ pc' = "validated"
    /\ UNCHANGED call

\* mapIssuesToXsltSource(allIssues, traceEntries) when tracing is enabled
PipelineMap ==
    /\ pc = "validated"
    /\ call.op = "transformAndValidate"
    /\ ret' = [ret EXCEPT
                 !.tracedIssues = IF call.enableTracing
                                    THEN MapIssuesToXsltSource(ret.allIssues,
                                                               ret.traceEntries, NoOutput)
                                    ELSE <<>>]
    /\ pc' = "done"
    /\ UNCHANGED call

NextPipeline ==
    \/ PipelineTransform
    \/ PipelineTransformThrows
    \/ PipelineNotUbl
    \/ PipelineValidate
    \/ PipelineMap

SpecPipeline == InitPipeline /\ [][NextPipeline]_vars

(***************************************************************************)
(* Properties of the pipeline                                              *)
(***************************************************************************)
InPipeline(stages) == call.op = "transformAndValidate" /\ pc \in stages

MaxValidatorIssues == 1

\* boolean | null: the empty sequence, or the sequence of the one value
Null == <<>>

ValidationScopes == {"full", "xsd-only", "business-rules-only"}

DocInfo(isInvoiceOrCreditNote) == [isInvoiceOrCreditNote |-> isInvoiceOrCreditNote]

ValidatorIssue(source, severity, ruleId, message) ==
    [line |-> 1, column |-> 0, message |-> message, severity |-> severity,
     ruleId |-> ruleId, source |-> source]

\* what one validator can report
ValidatorIssues(source) ==
    IF source = "xsd"
      THEN {ValidatorIssue("xsd", "Error", NoRuleId, <<Word("not"), Word("expected")>>)}
      ELSE {ValidatorIssue(source, "Error", "BR-02", MustExist),
            ValidatorIssue(source, "Warning", NoRuleId, MustExist)}

Returned(issues) == [threw |-> FALSE, issues |-> issues]
Threw == [threw |-> TRUE, issues |-> <<>>]

ValidatorOutcomes(source) ==
    {Threw} \cup {Returned(issues) : issues \in SeqsUpTo(ValidatorIssues(source),
                                                       MaxValidatorIssues)}

\* lines 228-235
NewValidation(docInfo) ==
    [allIssues |-> <<>>,
     validationResult |-> [issues |-> <<>>, documentInfo |-> docInfo, xsdPassed |-> TRUE,
                           en16931Passed |-> Null, peppolPassed |-> Null],
     ran |-> <<>>, threw |-> {}, outcomes |-> <<>>]

\* i => i.severity === vscode.DiagnosticSeverity.Error
ErrorsOf(issues) == SelectSeq(issues, LAMBDA i : i.severity = "Error")

\* the rule sets run for any document
RulesInScopeAnyDocument(scope, docInfo) == scope \in {"full", "business-rules-only"}

XsdInScope(scope) == scope \in {"full", "xsd-only"}

RulesInScope(scope, docInfo) ==
    scope \in {"full", "business-rules-only"} /\ docInfo.isInvoiceOrCreditNote

\* a throwing validator ends the validation: nothing is recorded
InvokeAborting(v, name, outcome, passed) ==
    IF outcome.threw
      THEN [v EXCEPT !.threw = @ \cup {name}, !.outcomes = Append(@, outcome)]
      ELSE [v EXCEPT !.ran = Append(@, name),
                     !.outcomes = Append(@, outcome),
                     !.allIssues = @ \o outcome.issues,
                     !.validationResult = passed]

\* try { issues = await validator; allIssues.push(...issues); passed = ... }
\* catch { passed = false }
Invoke(v, name, outcome, passed) ==
    [v EXCEPT !.ran = Append(@, name),
              !.outcomes = Append(@, outcome),
              !.threw = IF outcome.threw THEN @ \cup {name} ELSE @,
              !.allIssues = IF outcome.threw THEN @ ELSE @ \o outcome.issues,
              !.validationResult = passed]

\* lines 237-248
XsdStep(v, scope, outcome) ==
    IF ~XsdInScope(scope) THEN v
    ELSE Invoke(v, "xsd", outcome,
                [v.validationResult EXCEPT
                   !.xsdPassed = IF outcome.threw THEN FALSE ELSE outcome.issues = <<>>])

\* lines 250-263
En16931Step(v, scope, outcome) ==
    IF ~RulesInScope(scope, v.validationResult.documentInfo) THEN v
    ELSE Invoke(v, "en16931", outcome,
                [v.validationResult EXCEPT
                   !.en16931Passed = IF outcome.threw THEN <<FALSE>>
                                     ELSE <<ErrorsOf(outcome.issues) = <<>> >>])

\* lines 265-278
PeppolStep(v, scope, outcome) ==
    IF ~RulesInScope(scope, v.validationResult.documentInfo) THEN v
    ELSE Invoke(v, "peppol", outcome,
                [v.validationResult EXCEPT
                   !.peppolPassed = IF outcome.threw THEN <<FALSE>>
                                    ELSE <<ErrorsOf(outcome.issues) = <<>> >>])

\* lines 280-293; tracing is disabled in this part of the model
ValidationReturn(v) ==
    [isUbl |-> TRUE,
     validationResult |-> [v.validationResult EXCEPT !.issues = v.allIssues],
     ran |-> v.ran, threw |-> v.threw, outcomes |-> v.outcomes]

\* lines 217-225
NotUblReturn ==
    [isUbl |-> FALSE, validationResult |-> Null, ran |-> <<>>, threw |-> {},
     outcomes |-> <<>>]

\* the scope of a profile is read from a JSON file and can be any string
InitValidate ==
    /\ \E scope \in ValidationScopes \cup {"schema"} :
          call = [op |-> "transformAndValidate", validationScope |-> scope]
    /\ ret = Pending
    /\ pc = "start"

\* Steps 1 and 2: the transformation produced a UBL document
ValidateDetectUbl ==
    /\ pc = "start"
    /\ call.op = "transformAndValidate"
    /\ \E invoiceOrCreditNote \in BOOLEAN :
          ret' = NewValidation(DocInfo(invoiceOrCreditNote))
    /\ pc' = "xsd"
    /\ UNCHANGED call

\* Step 2: the output is no UBL document
ValidateNotUbl ==
    /\ pc = "start"
    /\ call.op = "transformAndValidate"
    /\ ret' = NotUblReturn
    /\ pc' = "returned"
    /\ UNCHANGED call

\* Step 1: the transformation throws, and so does the pipeline
ValidateTransformThrows ==
    /\ pc = "start"
    /\ call.op = "transformAndValidate"
    /\ ret' = [thrown |-> TRUE]
    /\ pc' = "thrown"
    /\ UNCHANGED call

ValidateXsd ==
    /\ pc = "xsd"
    /\ \E outcome \in ValidatorOutcomes("xsd") :
          ret' = XsdStep(ret, call.validationScope, outcome)
    /\ pc' = "en16931"
    /\ UNCHANGED call

ValidateEn16931 ==
    /\ pc = "en16931"
    /\ \E outcome \in ValidatorOutcomes("en16931") :
          ret' = En16931Step(ret, call.validationScope, outcome)
    /\ pc' = "peppol"
    /\ UNCHANGED call

ValidatePeppol ==
    /\ pc = "peppol"
    /\ \E outcome \in ValidatorOutcomes("peppol") :
          ret' = PeppolStep(ret, call.validationScope, outcome)
    /\ pc' = "collected"
    /\ UNCHANGED call

ValidateReturn ==
    /\ pc = "collected"
    /\ ret' = ValidationReturn(ret) @@ [allIssues |-> ret.allIssues]
    /\ pc' = "returned"
    /\ UNCHANGED call

NextValidate ==
    \/ ValidateDetectUbl
    \/ ValidateNotUbl
    \/ ValidateTransformThrows
    \/ ValidateXsd
    \/ ValidateEn16931
    \/ ValidatePeppol
    \/ ValidateReturn

SpecValidate == InitValidate /\ [][NextValidate]_vars

(***************************************************************************)
(* Properties of the validators                                            *)
(***************************************************************************)
Validating == pc \in {"xsd", "en16931", "peppol", "collected"}

ValidationReturned == pc = "returned" /\ ret.isUbl

\* the validators a scope and a document ask for, in the order XSD,
\* EN16931, Peppol
ExpectedValidators(scope, docInfo) ==
    (IF scope \in {"full", "xsd-only"} THEN <<"xsd">> ELSE <<>>)
      \o (IF scope \in {"full", "business-rules-only"} /\ docInfo.isInvoiceOrCreditNote
            THEN <<"en16931", "peppol">> ELSE <<>>)

IsPrefix(s, t) == Len(s) <= Len(t) /\ s = SubSeq(t, 1, Len(s))

\* C21: for a UBL document XSD validation runs exactly when the scope is
\* full or xsd-only, EN16931 and Peppol exactly when the scope is full or
\* business-rules-only and the document is an Invoice or CreditNote, in the
\* order XSD, EN16931, Peppol; en16931Passed and peppolPassed are null
\* exactly when the rule set did not run.
C21_ValidatorsByScope ==
    /\ Validating =>
          IsPrefix(ret.ran,
                   ExpectedValidators(call.validationScope,
                                      ret.validationResult.documentInfo))
    /\ ValidationReturned =>
          /\ ret.ran = ExpectedValidators(call.validationScope,
                                          ret.validationResult.documentInfo)
          /\ (ret.validationResult.en16931Passed = Null)
                <=> (\A k \in 1..Len(ret.ran) : ret.ran[k] # "en16931")
          /\ (ret.validationResult.peppolPassed = Null)
                <=> (\A k \in 1..Len(ret.ran) : ret.ran[k] # "peppol")

\* business rules only, on an Invoice: the rule sets ran and XSD did not
C21_Witness ==
    /\ ValidationReturned
    /\ call.validationScope = "business-rules-only"
    /\ ret.ran = <<"en16931", "peppol">>
    /\ ret.validationResult.en16931Passed = <<FALSE>>
    /\ ret.validationResult.peppolPassed = <<TRUE>>

\* the passed flag of a validator, a boolean or null
PassedFlag(validationResult, name) ==
    CASE name = "xsd" -> <<validationResult.xsdPassed>>
      [] name = "en16931" -> validationResult.en16931Passed
      [] name = "peppol" -> validationResult.peppolPassed

\* the issues of the validators that returned, in the order of the calls
RECURSIVE ReturnedIssues(_)
ReturnedIssues(outcomes) ==
    IF outcomes = <<>> THEN <<>>
    ELSE (IF Head(outcomes).threw THEN <<>> ELSE Head(outcomes).issues)
            \o ReturnedIssues(Tail(outcomes))

\* C28: a validator that throws does not abort the pipeline: its passed
\* flag is false, the remaining validators in scope still run in order, the
\* issues of the validators that returned are all in the result, and the
\* pipeline returns a result.
C28_ThrowingValidatorDoesNotAbort ==
    /\ (Validating \/ ValidationReturned) =>
          /\ \A name \in ret.threw : PassedFlag(ret.validationResult, name) = <<FALSE>>
          /\ Len(ret.outcomes) = Len(ret.ran)
          /\ ret.allIssues = ReturnedIssues(ret.outcomes)
    /\ ValidationReturned =>
          /\ ret.ran = ExpectedValidators(call.validationScope,
                                          ret.validationResult.documentInfo)
          /\ ret.validationResult.issues = ReturnedIssues(ret.outcomes)
    /\ (call.op = "transformAndValidate" /\ pc = "thrown") => ret = [thrown |-> TRUE]

\* XSD and EN16931 threw, Peppol ran after them and its issue is in the
\* result that is returned
C28_Witness ==
    /\ ValidationReturned
    /\ ret.threw = {"xsd", "en16931"}
    /\ ret.ran = <<"xsd", "en16931", "peppol">>
    /\ Len(ret.validationResult.issues) = 1
    /\ ret.validationResult.issues[1].source = "peppol"
    /\ ret.validationResult.xsdPassed = FALSE
    /\ ret.validationResult.en16931Passed = <<FALSE>>

(***************************************************************************)
(* Watch mode (watchManager.ts).  The extension host runs one task at a    *)
(* time: an action is one task, a command, an event or the continuation    *)
(* of an await, run up to its next await.  `call` names the object, `ret`  *)
(* holds its fields, the number of callbacks suspended at each await and   *)
(* ghost counters, `pc` is "loop": the event loop is between two tasks.    *)
(***************************************************************************)
MaxStarts == 2
MaxChanges == 2

\* the fields after the constructor, lines 274-292
NewWatchManager ==
    [op |-> "WatchManager",
     watcher |-> FALSE,            \* this.watcher !== null
     debounceTimer |-> "null",     \* null, a pending timer, a timer that fired
     running |-> FALSE,
     statusBarItem |-> "hidden",
     starting |-> 0,               \* start() calls suspended at a dialog
     inProgress |-> 0,             \* runPipeline calls awaiting the pipeline
     liveWatchers |-> 0,           \* file watchers created and not disposed
     starts |-> 0,                 \* start() calls made
     changes |-> 0,                \* change events delivered
     unserved |-> FALSE]           \* a change with no run started after it

\* runPipeline without the test of the running flag
RunPipelineUnguarded(w) ==
    [w EXCEPT !.running = TRUE, !.statusBarItem = "running",
              !.inProgress = @ + 1, !.unserved = FALSE]

\* runPipeline up to its await, lines 387-395
RunPipeline(w) ==
    IF w.running THEN w
    ELSE [w EXCEPT !.running = TRUE, !.statusBarItem = "running",
                   !.inProgress = @ + 1, !.unserved = FALSE]

\* a run that leaves the flag set when the pipeline threw
RunPipelineEndsKeepingFlag(w, outcome) ==
    [w EXCEPT !.running = (outcome = "error"), !.statusBarItem = outcome,
              !.inProgress = @ - 1]

\* runPipeline after its await, lines 403-430
RunPipelineEnds(w, outcome) ==
    [w EXCEPT !.running = FALSE, !.statusBarItem = outcome, !.inProgress = @ - 1]

\* lines 378-385
OnFileChanged(w) == [w EXCEPT !.debounceTimer = "pending"]

InitWatch ==
    /\ call = [op |-> "WatchManager"]
    /\ ret = NewWatchManager
    /\ pc = "loop"

\* start() up to its first await, lines 298-309 and 322-328
StartCall ==
    /\ pc = "loop"
    /\ call.op = "WatchManager"
    /\ ret.starts < MaxStarts
    /\ ret' = IF ret.watcher
                THEN [ret EXCEPT !.starts = @ + 1]
                ELSE [ret EXCEPT !.starts = @ + 1, !.starting = @ + 1]
    /\ UNCHANGED <<call, pc>>

\* start() after the dialog, lines 310-357: nothing was picked, or the
\* watcher is created and the pipeline run once
StartResume ==
    /\ pc = "loop"
    /\ call.op = "WatchManager"
    /\ ret.starting > 0
    /\ \E picked \in BOOLEAN :
          ret' = IF ~picked
                   THEN [ret EXCEPT !.starting = @ - 1]
                   ELSE RunPipeline([ret EXCEPT !.starting = @ - 1,
                                                !.watcher = TRUE,
                                                !.liveWatchers = @ + 1,
                                                !.statusBarItem = "active"])
    /\ UNCHANGED <<call, pc>>

\* stop(), lines 360-371
Stop ==
    /\ pc = "loop"
    /\ call.op = "WatchManager"
    /\ ret' = [ret EXCEPT !.debounceTimer = "null",
                          !.watcher = FALSE,
                          !.liveWatchers = IF ret.watcher THEN @ - 1 ELSE @,
                          !.statusBarItem = "hidden"]
    /\ UNCHANGED <<call, pc>>

\* watcher.onDidChange / onDidCreate -> onFileChanged()
FileChanged ==
    /\ pc = "loop"
    /\ call.op = "WatchManager"
    /\ ret.liveWatchers > 0
    /\ ret.changes < MaxChanges
    /\ ret' = [OnFileChanged(ret) EXCEPT !.changes = @ + 1, !.unserved = TRUE]
    /\ UNCHANGED <<call, pc>>

\* the debounce timer fires: () => this.runPipeline(), lines 382-384
TimerFires ==
    /\ pc = "loop"
    /\ call.op = "WatchManager"
    /\ ret.debounceTimer = "pending"
    /\ ret' = RunPipeline([ret EXCEPT !.debounceTimer = "fired"])
    /\ UNCHANGED <<call, pc>>

\* transformAndValidate returns or throws, lines 403-430
RunEnds ==
    /\ pc = "loop"
    /\ call.op = "WatchManager"
    /\ ret.inProgress > 0
    /\ \E outcome \in {"passed", "issues", "non-UBL", "error"} :
          ret' = RunPipelineEnds(ret, outcome)
    /\ UNCHANGED <<call, pc>>

NextWatch ==
    \/ StartCall
    \/ StartResume
    \/ Stop
    \/ FileChanged
    \/ TimerFires
    \/ RunEnds

SpecWatch == InitWatch /\ [][NextWatch]_vars

\* watch mode stays active: stop() is not called; timers fire and pipeline
\* runs terminate
NextWatchActive ==
    \/ StartCall
    \/ StartResume
    \/ FileChanged
    \/ TimerFires
    \/ RunEnds

SpecWatchActive ==
    /\ InitWatch
    /\ [][NextWatchActive]_vars
    /\ WF_vars(StartResume)
    /\ WF_vars(TimerFires)
    /\ WF_vars(RunEnds)

(***************************************************************************)
(* Properties of watch mode                                                *)
(***************************************************************************)
Watching == call.op = "WatchManager"

\* C24: while watch mode stays active and pipeline runs terminate, every
\* stylesheet change event is eventually followed by a pipeline run that
\* starts after the change, also a change that arrives while a run is in
\* progress.
C24_ChangeFollowedByRun ==
    (Watching /\ ret.unserved) ~> (Watching /\ ~ret.unserved)

\* C25: at most one pipeline run of a WatchManager is in progress at any
\* time, and the running flag is set exactly while a run is in progress: it
\* is cleared when the run ends, whether it succeeded or threw.
C25_AtMostOneRun ==
    Watching =>
        /\ ret.inProgress <= 1
        /\ ret.running <=> (ret.inProgress = 1)

\* a run that threw has ended, after a timer fired during that run and a
\* second start() was made
C25_Witness ==
    /\ Watching
    /\ ret.statusBarItem = "error"
    /\ ret.inProgress = 0
    /\ ~ret.running
    /\ ret.debounceTimer = "fired"
    /\ ret.starts = 2

(***************************************************************************)
(* The fix agent (fixAgent.ts, fixSingleIssue and applyAndVerify).  An     *)
(* action is the function run from one await to the next: the LLM call,    *)
(* the confirmation of the diff, the re-run pipeline, the retry question.  *)
(* `ret` holds the stylesheet file, the local variables and ghost records  *)
(* of the LLM calls made and of the last re-run pipeline.                  *)
(*                                                                         *)
(* A file is its bytes: the text they stand for and whether they are       *)
(* well-formed UTF-8.  A string is a sequence of pieces of text.           *)
(***************************************************************************)
MaxRetries == 2

Utf8File(string) == [bytes |-> "utf8", text |-> string]
\* bytes that are no well-formed UTF-8, a stylesheet saved as ISO-8859-1
\* with a character beyond ASCII
Latin1File(string) == [bytes |-> "latin1", text |-> string]

\* fs.readFileSync(path, 'utf8'): every invalid byte becomes U+FFFD
ReadFileUtf8(file) ==
    IF file.bytes = "utf8" THEN file.text ELSE file.text \o <<"U+FFFD">>

\* fs.writeFileSync(path, string, 'utf8')
WriteFileUtf8(string) == [bytes |-> "utf8", text |-> string]

\* transformAndValidate({...pipelineOptions, enableTracing: true}) on a UBL
\* output, the three validators in turn
TransformAndValidateUbl(scope, docInfo, xsd, en16931, peppol) ==
    ValidationReturn(
        PeppolStep(En16931Step(XsdStep(NewValidation(docInfo), scope, xsd),
                               scope, en16931),
                   scope, peppol))

PipelineThrew == [thrown |-> TRUE, isUbl |-> FALSE, validationResult |-> Null,
                  ran |-> <<>>, threw |-> {}, outcomes |-> <<>>]

\* what a re-run of the pipeline can come to
PipelineResults(scope) ==
    {PipelineThrew, [thrown |-> FALSE] @@ NotUblReturn}
      \cup {[thrown |-> FALSE] @@ TransformAndValidateUbl(scope, DocInfo(inv), x, e, p) :
               inv \in BOOLEAN, x \in ValidatorOutcomes("xsd"),
               e \in ValidatorOutcomes("en16931"), p \in ValidatorOutcomes("peppol")}

\* lines 242-247
OriginalStillPresent(issue, remainingIssues) ==
    \E k \in 1..Len(remainingIssues) :
        LET i == remainingIssues[k]
        IN  IF issue.ruleId # NoRuleId /\ i.ruleId # NoRuleId
              THEN i.ruleId = issue.ruleId
              ELSE i.message = issue.message

\* applyAndVerify after the pipeline, lines 231-265
Resolved(issue, pipeline) ==
    /\ ~pipeline.thrown
    /\ pipeline.isUbl
    /\ ~OriginalStillPresent(issue, pipeline.validationResult.issues)

FixIssues ==
    {ValidatorIssue("en16931", "Error", "BR-02", MustExist),
     ValidatorIssue("peppol", "Warning", NoRuleId, MustExist),
     ValidatorIssue("xsd", "Error", NoRuleId, <<Word("not"), Word("expected")>>)}

\* the proposed content of a response with a valid fix
Proposals == {<<"fix-1">>, <<"fix-2">>}

InitFix ==
    /\ \E issue \in FixIssues, traced \in BOOLEAN, maxRetries \in 0..MaxRetries,
          scope \in {"full", "business-rules-only"},
          file \in {Utf8File(<<"original">>), Latin1File(<<"original">>)} :
          \* the issue was raised by a run with these pipeline options
          /\ issue.source = "xsd" => XsdInScope(scope)
          /\ call = [op |-> "fixSingleIssue",
                  issue |-> issue @@ [xsltSourceFile |-> IF traced THEN TraceFile ELSE <<>>],
                  config |-> [maxRetries |-> maxRetries],
                  pipelineOptions |-> [validationScope |-> scope],
                  file |-> file]
    /\ ret = [op |-> "fixSingleIssue", file |-> call.file, originalXslt |-> <<>>,
              attempt |-> 0, proposal |-> <<>>, llmCalls |-> 0,
              pipeline |-> PipelineThrew, result |-> Null]
    /\ pc = "fix"

FixReturn(r, value) == [r EXCEPT !.result = <<value>>]

\* the head of the for loop, line 48, up to the await of callLlm
FixLoop(r) ==
    IF r.attempt < call.config.maxRetries
      THEN [state |-> r, pc |-> "llm"]
      ELSE [state |-> FixReturn(r, FALSE), pc |-> "returned"]

\* lines 35-48
FixSingleIssueCall ==
    /\ pc = "fix"
    /\ call.op = "fixSingleIssue"
    /\ LET next == IF call.issue.xsltSourceFile = <<>>
                     THEN [state |-> FixReturn(ret, FALSE), pc |-> "returned"]
                     ELSE FixLoop([ret EXCEPT !.originalXslt = ReadFileUtf8(ret.file)])
       IN  ret' = next.state /\ pc' = next.pc
    /\ UNCHANGED call

\* callLlm returned: lines 61-81, a response with a valid fix
FixLlmProposes ==
    /\ pc = "llm"
    /\ \E proposal \in Proposals :
          ret' = [ret EXCEPT !.llmCalls = @ + 1, !.proposal = proposal]
    /\ pc' = "confirm"
    /\ UNCHANGED call

\* callLlm threw (62-65), or the response holds no valid fix (68-74)
FixLlmFails ==
    /\ pc = "llm"
    /\ ret' = FixReturn([ret EXCEPT !.llmCalls = @ + 1], FALSE)
    /\ pc' = "returned"
    /\ UNCHANGED call

\* showDiffAndConfirm returned: rejected (83-86), or accepted and
\* applyAndVerify writes the proposed fix and starts the pipeline (218-229)
FixConfirm ==
    /\ pc = "confirm"
    /\ \E accepted \in BOOLEAN :
          IF accepted
            THEN /\ ret' = [ret EXCEPT !.file = WriteFileUtf8(ret.proposal)]
                 /\ pc' = "verify"
            ELSE /\ ret' = FixReturn(ret, FALSE)
                 /\ pc' = "returned"
    /\ UNCHANGED call

\* the pipeline returned or threw: applyAndVerify 231-265, then lines 96-121
FixVerify ==
    /\ pc = "verify"
    /\ \E pipeline \in PipelineResults(call.pipelineOptions.validationScope) :
          LET verified == [ret EXCEPT !.pipeline = pipeline]
              reverted == [verified EXCEPT !.file = WriteFileUtf8(ret.originalXslt)]
          IN  IF Resolved(call.issue, pipeline)
                THEN ret' = FixReturn(verified, TRUE) /\ pc' = "returned"
              ELSE IF ret.attempt < call.config.maxRetries - 1
                THEN ret' = reverted /\ pc' = "retry"
              ELSE LET next == FixLoop([reverted EXCEPT !.attempt = @ + 1])
                   IN  ret' = next.state /\ pc' = next.pc
    /\ UNCHANGED call

\* the answer to "Retry?", lines 118-122 and the head of the loop
FixRetry ==
    /\ pc = "retry"
    /\ \E retry \in BOOLEAN :
          LET next == IF retry THEN FixLoop([ret EXCEPT !.attempt = @ + 1])
                      ELSE [state |-> FixReturn(ret, FALSE), pc |-> "returned"]
          IN  ret' = next.state /\ pc' = next.pc
    /\ UNCHANGED call

NextFix ==
    \/ FixSingleIssueCall
    \/ FixLlmProposes
    \/ FixLlmFails
    \/ FixConfirm
    \/ FixVerify
    \/ FixRetry

SpecFix == InitFix /\ [][NextFix]_vars

(***************************************************************************)
(* Properties of the fix agent                                             *)
(***************************************************************************)
FixReturned(value) ==
    pc = "returned" /\ call.op = "fixSingleIssue" /\ ret.result = <<value>>

\* the validator was invoked in the re-run pipeline and returned
RanToCompletion(pipeline, source) ==
    /\ \E k \in 1..Len(pipeline.ran) : pipeline.ran[k] = source
    /\ source \notin pipeline.threw

\* C26: fixSingleIssue returns true, leaving the proposed stylesheet on
\* disk, only if in the re-run pipeline the validator that had raised the
\* issue ran to completion on the new output and no longer reports the
\* issue.
C26_ResolvedOnlyIfValidatorRan ==
    FixReturned(TRUE) =>
        /\ ret.file = WriteFileUtf8(ret.proposal)
        /\ ~ret.pipeline.thrown /\ ret.pipeline.isUbl
        /\ RanToCompletion(ret.pipeline, call.issue.source)
        /\ ~OriginalStillPresent(call.issue, ret.pipeline.validationResult.issues)

\* C27: whenever fixSingleIssue returns false the stylesheet file holds
\* exactly the content it had when fixSingleIssue was called, also after
\* earlier attempts wrote proposed fixes; and at most maxRetries attempts
\* are made.
C27_FalseLeavesFileUnchanged ==
    /\ FixReturned(FALSE) => ret.file = call.file
    /\ (call.op = "fixSingleIssue" /\ pc # "fix") => ret.llmCalls <= call.config.maxRetries

(***************************************************************************)
(* The whole model: one call of any of the functions                       *)
(***************************************************************************)
Init == InitResolve \/ InitTrace \/ InitMap \/ InitInstrument \/ InitRun \/ InitSvrl
          \/ InitPipeline \/ InitValidate \/ InitExtract \/ InitWatch
          \/ InitFix

Next ==
    \/ ResolveLineFromXPathCall
    \/ ParseTracedOutputCall
    \/ MapIssuesToXsltSourceCall
    \/ InstrumentXsltCall
    \/ NextRun
    \/ ParseSvrlOutputFromContentCall
    \/ NextPipeline
    \/ NextValidate
    \/ ExtractErrorElementNamesCall
    \/ NextWatch
    \/ NextFix

Spec == Init /\ [][Next]_vars

====
